---- MODULE Spec2Model ----
(***************************************************************************)
(* Model of langgraph_rms: RuleValidator.validate_rule and the helpers it  *)
(* calls (safe_json_parse, _parse_validation_response, the pydantic models *)
(* AgentRuleInfo / RuleValidation, the global configuration).              *)
(*                                                                         *)
(* Scores are fixed-point numbers: the float 1.0 is the integer One, and   *)
(* every sub-score of the model is a multiple of 3 so that the mean of     *)
(* three sub-scores, (a + b + c) / 3.0, is computed exactly.               *)
(***************************************************************************)
EXTENDS Integers, Sequences, FiniteSets, TLC

VARIABLES
    config,               \* config._config: NoConfig or an RMSConfig
    init_call,            \* the latest call of the coroutine function config.initialize
    pydantic_bool_float,  \* whether the installed pydantic accepts a bool for a float field
    pc,                   \* position of the validate_rule coroutine
    template,             \* RuleValidator.prompt_template
    scoring_callback,     \* the scoring_callback argument of the call
    response,             \* what llm_client.ainvoke produced
    scored,               \* local applied_agents after the scoring loop
    cb_calls,             \* invocations of scoring_callback during the call
    cb_arg,               \* argument of the last scoring_callback invocation
    result,               \* how validate_rule ended
    existing_rules,       \* the existing_rules argument of the call
    prompt,               \* the prompt validate_rule rendered
    llm_calls,            \* invocations of llm_client.ainvoke during the call
    calls,                \* the validate_rule coroutines of concurrent callers
    text,                 \* an argument of safe_json_parse
    parse_result,         \* what safe_json_parse returned or raised for text
    render_args,          \* the arguments of a PromptTemplate.render call
    rendered,             \* what PromptTemplate.render returned
    inject,               \* a call of the prompt-injection helpers and its outcome
    cache,                \* RuleCache._cache: product name -> list of CachedRule
    last_refresh,         \* RuleCache._last_refresh: product name -> datetime
    refreshed,            \* history: product name -> the list given to its latest refresh_rules
    clock,                \* datetime.now()
    fetch,                \* the fetch_from_rms coroutine
    http                  \* the request to an /internal endpoint being served

\* the local state of one validate_rule coroutine
call_vars == <<pc, template, scoring_callback, response, scored, cb_calls, cb_arg,
               result, existing_rules, prompt, llm_calls>>

\* arguments and results of the pure functions
pure_vars == <<text, parse_result, render_args, rendered, inject>>

\* the RuleCache singleton, the coroutine fetching into it, the router
cache_vars == <<cache, last_refresh, refreshed, clock, fetch, http>>

vars == <<config, init_call, pydantic_bool_float, call_vars, calls, pure_vars, cache_vars>>

-----------------------------------------------------------------------------
(* Bounds and input sets *)

MaxEntries == 2

One == 6

AgentNames == {"AgentA", "AgentB"}

Thresholds == {0, 2, 3, One}

Callbacks == {"none", "first", "empty", "reverse", "invent", "raise"}

Templates == {"default", "unknown_placeholder"}

NoConfig == [initialized |-> FALSE]

\* initialize has not been called
NoInitialize == [pc |-> "none", config |-> NoConfig, fetch_rules_on_init |-> FALSE]

\* RMSConfig.product_name of the configurations of the model
ConfigProductName == "product1"

\* RMSConfig.api_key of the configurations of the model
ConfigApiKey == "test-api-key-12345"

NoResponse == [kind |-> "none"]

NoResult == [kind |-> "none"]

-----------------------------------------------------------------------------
(* JSON values of a model response *)

Num(n) == [t |-> "num", v |-> n]

JsonTrue == [t |-> "bool", v |-> One]

JsonString == [t |-> "str", v |-> 0]

required_fields ==
    <<"agent_name", "role_consistency_score", "authority_expansion_score",
      "instruction_conflicts_score", "rule_to_apply">>

score_fields ==
    <<"role_consistency_score", "authority_expansion_score",
      "instruction_conflicts_score">>

Range(s) == {s[i] : i \in 1..Len(s)}

Min(S) == CHOOSE x \in S : \A y \in S : x <= y

Max(S) == CHOOSE x \in S : \A y \in S : x >= y

Get(m, k, default) == IF k \in DOMAIN m THEN m[k] ELSE default

Ok(v) == [ok |-> TRUE, value |-> v]

Err(exc, msg) == [ok |-> FALSE, exc |-> exc, msg |-> msg]

-----------------------------------------------------------------------------
(* utils.safe_json_parse.  A text is a sequence of tokens: "nl" is a      *)
(* newline (the only whitespace), "fence" is ```, the words json, JSON,    *)
(* Json and python are language tags, obj1 and obj2 are the texts of       *)
(* two JSON objects, arr of a JSON array, scalar the JSON literal true and  *)
(* junk is prose that is not JSON.                                          *)

ObjectTokens == {"obj1", "obj2"}

\* the value json.loads gives for the text of a JSON object
ObjectOf(tok) ==
    IF tok = "obj1" THEN [applied_agents |-> <<>>]
    ELSE [system_summary |-> <<"summary">>]

\* str.strip
RECURSIVE Strip(_)
Strip(s) ==
    IF s = <<>> THEN s
    ELSE IF Head(s) = "nl" THEN Strip(Tail(s))
    ELSE IF s[Len(s)] = "nl" THEN Strip(SubSeq(s, 1, Len(s) - 1))
    ELSE s

\* (?:json|JSON)
JsonBlockTags == {"json", "JSON"}

\* positions k of a closing "\n```" that leave a body after position j
Closers(s, j) == {k \in (j + 1)..(Len(s) - 1) : s[k] = "nl" /\ s[k + 1] = "fence"}

\* ends j of the whitespace run \s*\n that starts after position hd, for
\* which the rest of the pattern matches
OpenerEnds(s, hd) ==
    {j \in (hd + 1)..Len(s) :
        /\ \A m \in (hd + 1)..j : s[m] = "nl"
        /\ Closers(s, j) # {}}

\* position of the last token of "```" or "```json" at i, 0 if not there
OpenerAt(s, i, tags) ==
    IF s[i] # "fence" THEN 0
    ELSE IF tags = {} THEN i
    ELSE IF i < Len(s) /\ s[i + 1] \in tags THEN i + 1
    ELSE 0

\* re.search(pattern, content, re.DOTALL): the leftmost match, \s* greedy
\* and (.*?) lazy; group(1) of the match
Search(s, tags) ==
    LET starts == {i \in 1..Len(s) :
                      /\ OpenerAt(s, i, tags) # 0
                      /\ OpenerEnds(s, OpenerAt(s, i, tags)) # {}}
    IN  IF starts = {} THEN [found |-> FALSE]
        ELSE LET j == Max(OpenerEnds(s, OpenerAt(s, Min(starts), tags)))
                 k == Min(Closers(s, j))
             IN  [found |-> TRUE, group |-> SubSeq(s, j + 1, k - 1)]

\* the generic pattern tried before the json pattern
SelectPayload_GenericFirst(content) ==
    IF Search(content, {}).found THEN Strip(Search(content, {}).group)
    ELSE IF Search(content, JsonBlockTags).found
    THEN Strip(Search(content, JsonBlockTags).group)
    ELSE content

\* json_str: the json block, else the generic block, else the whole content
SelectPayload(content) ==
    IF Search(content, JsonBlockTags).found
    THEN Strip(Search(content, JsonBlockTags).group)
    ELSE IF Search(content, {}).found THEN Strip(Search(content, {}).group)
    ELSE content

\* json.loads: one JSON value, whitespace allowed around it
json_loads(json_str) ==
    LET doc == Strip(json_str) IN
    IF Len(doc) # 1 THEN [form |-> "malformed"]
    ELSE IF doc[1] \in ObjectTokens THEN [form |-> "object", value |-> ObjectOf(doc[1])]
    ELSE IF doc[1] = "arr" THEN [form |-> "array"]
    ELSE IF doc[1] = "scalar" THEN [form |-> "scalar"]
    ELSE [form |-> "malformed"]

\* what safe_json_parse reads in a text: empty, or what json.loads makes of
\* the payload it selects
ReadContent(t) ==
    IF Strip(t) = <<>> THEN [form |-> "empty"]
    ELSE json_loads(SelectPayload(Strip(t)))

\* the isinstance(parsed, dict) test left out
safe_json_parse_AnyValue(content) ==
    CASE content.form = "empty" ->
            Err("ValueError", <<"Content is empty or contains only whitespace">>)
      [] content.form = "malformed" ->
            Err("ValueError", <<"Failed to parse JSON">>)
      [] content.form \in {"array", "scalar"} ->
            Ok(<<>>)
      [] content.form = "object" ->
            Ok(content.value)

\* content: the text as ReadContent reads it
safe_json_parse(content) ==
    CASE content.form = "empty" ->
            Err("ValueError", <<"Content is empty or contains only whitespace">>)
      [] content.form = "malformed" ->
            Err("ValueError", <<"Failed to parse JSON">>)
      [] content.form = "array" ->
            Err("ValueError", <<"Expected JSON object (dict), got ", "list">>)
      [] content.form = "scalar" ->
            Err("ValueError", <<"Expected JSON object (dict), got ", "bool">>)
      [] content.form = "object" ->
            Ok(content.value)

-----------------------------------------------------------------------------
(* RuleValidator._parse_validation_response *)

\* the last absent field instead of the first
MissingField_Last(agent) ==
    LET missing == {i \in 1..Len(required_fields) : required_fields[i] \notin DOMAIN agent}
    IN  IF missing = {} THEN 0 ELSE Max(missing)

\* index in required_fields of the first field absent from the entry, 0 if none
MissingField(agent) ==
    LET missing == {i \in 1..Len(required_fields) : required_fields[i] \notin DOMAIN agent}
    IN  IF missing = {} THEN 0 ELSE Min(missing)

\* isinstance(score, (int, float)) and 0.0 <= score <= 1.0; bool is an int in Python
IsValidScore(score) ==
    /\ score.t \in {"num", "bool"}
    /\ 0 <= score.v
    /\ score.v <= One

\* index in score_fields of the first score that fails the range check, 0 if none
InvalidScore(agent) ==
    LET bad == {i \in 1..Len(score_fields) : ~IsValidScore(agent[score_fields[i]])}
    IN  IF bad = {} THEN 0 ELSE Min(bad)

\* the checks of one loop iteration: required fields first, then score ranges
CheckAgentEntry(agent) ==
    IF MissingField(agent) # 0
    THEN Err("ValueError", <<"Agent entry missing required field: ",
                             required_fields[MissingField(agent)]>>)
    ELSE IF InvalidScore(agent) # 0
    THEN Err("ValueError", <<score_fields[InvalidScore(agent)],
                             " must be a number between 0.0 and 1.0">>)
    ELSE Ok(agent)

\* the first entry, in list order, that fails its checks; 0 if none
FirstInvalidEntry(agents) ==
    LET bad == {i \in 1..Len(agents) : ~CheckAgentEntry(agents[i]).ok}
    IN  IF bad = {} THEN 0 ELSE Min(bad)

\* an invalid entry skipped instead of failing the whole response
parse_validation_response_DropInvalid(content) ==
    LET parsed == safe_json_parse(content) IN
    IF ~parsed.ok THEN parsed
    ELSE IF "applied_agents" \notin DOMAIN parsed.value
    THEN Err("ValueError", <<"Response missing 'applied_agents' field">>)
    ELSE Ok([parsed.value EXCEPT !.applied_agents =
                SelectSeq(@, LAMBDA agent : CheckAgentEntry(agent).ok)])

parse_validation_response(content) ==
    LET parsed == safe_json_parse(content) IN
    IF ~parsed.ok THEN parsed
    ELSE IF "applied_agents" \notin DOMAIN parsed.value
    THEN Err("ValueError", <<"Response missing 'applied_agents' field">>)
    ELSE IF FirstInvalidEntry(parsed.value.applied_agents) # 0
    THEN CheckAgentEntry(parsed.value.applied_agents[
                             FirstInvalidEntry(parsed.value.applied_agents)])
    ELSE parsed

-----------------------------------------------------------------------------
(* models.AgentRuleInfo, models.RuleValidation (pydantic constructors) *)

\* a float field with ge=0.0, le=1.0
FloatField(score, lax) ==
    /\ score.t = "num" \/ (score.t = "bool" /\ lax)
    /\ 0 <= score.v
    /\ score.v <= One

\* kw: the keyword arguments of the constructor call
AgentRuleInfo(kw, lax) ==
    IF /\ FloatField(kw.role_consistency_score, lax)
       /\ FloatField(kw.authority_expansion_score, lax)
       /\ FloatField(kw.instruction_conflicts_score, lax)
       /\ FloatField(Num(kw.overall_compatibility_score), lax)
    THEN Ok([agent_name |-> kw.agent_name,
             role_consistency_score |-> kw.role_consistency_score.v,
             authority_expansion_score |-> kw.authority_expansion_score.v,
             instruction_conflicts_score |-> kw.instruction_conflicts_score.v,
             overall_compatibility_score |-> kw.overall_compatibility_score,
             analysis |-> kw.analysis,
             concerns |-> kw.concerns,
             rule_to_apply |-> kw.rule_to_apply])
    ELSE Err("ValidationError", <<"AgentRuleInfo">>)

RuleValidationFields ==
    {"can_be_applied", "max_compatibility_score", "explanation",
     "explanation_en", "validation_metadata"}

\* every field of RuleValidation is declared Field(...), i.e. required
RuleValidation(args) ==
    IF /\ RuleValidationFields \subseteq DOMAIN args
       /\ 0 <= args.max_compatibility_score
       /\ args.max_compatibility_score <= One
    THEN Ok(args)
    ELSE Err("ValidationError", <<"RuleValidation">>)

-----------------------------------------------------------------------------
(* RuleValidator.validate_rule: the scoring loop *)

\* the model's own overall_compatibility_score taken when it supplies one
OverallScore_Supplied(agent_data) ==
    IF "overall_compatibility_score" \in DOMAIN agent_data
    THEN agent_data.overall_compatibility_score.v
    ELSE (agent_data.role_consistency_score.v
          + agent_data.authority_expansion_score.v
          + agent_data.instruction_conflicts_score.v) \div 3

\* (role + authority + conflicts) / 3.0
OverallScore(agent_data) ==
    (agent_data.role_consistency_score.v
     + agent_data.authority_expansion_score.v
     + agent_data.instruction_conflicts_score.v) \div 3

\* no threshold test at all: every valid entry is kept
MeetsThreshold_Always(overall_score, threshold) == overall_score >= 0

\* the comparison made strict: an entry exactly at the threshold is dropped
MeetsThreshold_Strict(overall_score, threshold) == overall_score > threshold

\* overall_score >= config.compatibility_threshold
MeetsThreshold(overall_score, threshold) == overall_score >= threshold

\* the AgentRuleInfo built for an entry that meets the threshold
BuildAgentInfo(agent_data, lax) ==
    AgentRuleInfo([agent_name |-> agent_data.agent_name,
                   role_consistency_score |-> agent_data.role_consistency_score,
                   authority_expansion_score |-> agent_data.authority_expansion_score,
                   instruction_conflicts_score |-> agent_data.instruction_conflicts_score,
                   overall_compatibility_score |-> OverallScore(agent_data),
                   analysis |-> Get(agent_data, "analysis", ""),
                   concerns |-> Get(agent_data, "concerns", <<>>),
                   rule_to_apply |-> agent_data.rule_to_apply],
                  lax)

\* the for loop over parsed_data["applied_agents"]: Ok(applied_agents) or the
\* first exception raised by an AgentRuleInfo constructor
RECURSIVE ScoreLoop(_, _, _, _)
ScoreLoop(agents, threshold, lax, applied_agents) ==
    IF agents = <<>> THEN Ok(applied_agents)
    ELSE IF ~MeetsThreshold(OverallScore(Head(agents)), threshold)
    THEN ScoreLoop(Tail(agents), threshold, lax, applied_agents)
    ELSE IF ~BuildAgentInfo(Head(agents), lax).ok
    THEN BuildAgentInfo(Head(agents), lax)
    ELSE ScoreLoop(Tail(agents), threshold, lax,
                   Append(applied_agents, BuildAgentInfo(Head(agents), lax).value))

-----------------------------------------------------------------------------
(* The scoring_callback argument: callables a caller may pass *)

Reverse(s) == [i \in 1..Len(s) |-> s[Len(s) + 1 - i]]

\* an AgentRuleInfo that a callback constructs itself
InventedAgent ==
    [agent_name |-> "Invented",
     role_consistency_score |-> 0,
     authority_expansion_score |-> 0,
     instruction_conflicts_score |-> 0,
     overall_compatibility_score |-> 0,
     analysis |-> "",
     concerns |-> <<>>,
     rule_to_apply |-> "invented rule"]

CallbackReturn(cb, agents) ==
    CASE cb = "first"   -> Ok(IF agents # <<>> THEN <<agents[1]>> ELSE <<>>)
      [] cb = "empty"   -> Ok(<<>>)
      [] cb = "reverse" -> Ok(Reverse(agents))
      [] cb = "invent"  -> Ok(Append(agents, InventedAgent))
      [] cb = "raise"   -> Err("Exception", <<"callback error">>)

\* the callback skipped when scoring kept nothing
CallbackInvoked_NonEmpty(cb, applied_agents) == cb # "none" /\ applied_agents # <<>>

\* if scoring_callback: applied_agents = scoring_callback(applied_agents)
CallbackInvoked(cb, applied_agents) == cb # "none"

ApplyCallback(cb, applied_agents) ==
    IF CallbackInvoked(cb, applied_agents)
    THEN [calls |-> 1, arg |-> applied_agents, ret |-> CallbackReturn(cb, applied_agents)]
    ELSE [calls |-> 0, arg |-> <<>>, ret |-> Ok(applied_agents)]

-----------------------------------------------------------------------------
(* RuleValidator.validate_rule: result assembly and the except handler *)

\* the score of the first agent instead of the maximum
MaxScore_First(applied_agents) ==
    IF applied_agents # <<>>
    THEN applied_agents[1].overall_compatibility_score
    ELSE 0

MaxScore(applied_agents) ==
    IF applied_agents # <<>>
    THEN Max({applied_agents[i].overall_compatibility_score : i \in 1..Len(applied_agents)})
    ELSE 0

\* applicability decided from the scores instead of the length of the list
CanBeApplied_FromScore(applied_agents) ==
    applied_agents # <<>> /\ applied_agents[1].overall_compatibility_score > 0

CanBeApplied(applied_agents) == Len(applied_agents) > 0

ResultArgs(parsed_data, applied_agents) ==
    [can_be_applied |-> CanBeApplied(applied_agents),
     max_compatibility_score |-> MaxScore(applied_agents),
     explanation |-> Get(parsed_data, "system_summary", <<"default summary">>),
     explanation_en |-> Get(parsed_data, "system_summary_en", <<"Rule validation completed">>),
     validation_metadata |-> [applied_agents |-> applied_agents]]

\* the keyword arguments of the RuleValidation built in the except handler
SafeDefaultArgs(e) ==
    [can_be_applied |-> FALSE,
     max_compatibility_score |-> 0,
     explanation |-> <<"Validation failed: ">> \o e.msg,
     validation_metadata |-> [applied_agents |-> <<>>]]

Returned(value) == [kind |-> "returned", value |-> value]

Raised(error, cause, args) ==
    [kind |-> "raised", exc |-> error.exc, cause |-> cause, args |-> args]

\* except Exception as e: return RuleValidation(...); an exception raised by
\* that constructor leaves the handler and reaches the caller
ExceptHandler(e) ==
    IF RuleValidation(SafeDefaultArgs(e)).ok
    THEN Returned(RuleValidation(SafeDefaultArgs(e)).value)
    ELSE Raised(RuleValidation(SafeDefaultArgs(e)), e, SafeDefaultArgs(e))

\* the try body once the scoring loop has produced applied_agents
Assemble(parsed_data, cb, applied_agents) ==
    LET called == ApplyCallback(cb, applied_agents) IN
    [scored   |-> applied_agents,
     cb_calls |-> called.calls,
     cb_arg   |-> called.arg,
     result   |->
        IF ~called.ret.ok THEN ExceptHandler(called.ret)
        ELSE IF ~RuleValidation(ResultArgs(parsed_data, called.ret.value)).ok
        THEN ExceptHandler(RuleValidation(ResultArgs(parsed_data, called.ret.value)))
        ELSE Returned(RuleValidation(ResultArgs(parsed_data, called.ret.value)).value)]

Failure(e) ==
    [scored |-> <<>>, cb_calls |-> 0, cb_arg |-> <<>>, result |-> ExceptHandler(e)]

\* config.get_config
get_config(cfg) ==
    IF cfg.initialized THEN Ok(cfg)
    ELSE Err("RuntimeError", <<"Configuration not initialized">>)

\* validate_rule from the return of ainvoke(prompt) to its end
AfterInvoke(content, cfg, cb, lax) ==
    LET parsed == parse_validation_response(content) IN
    IF ~parsed.ok THEN Failure(parsed)
    ELSE IF ~get_config(cfg).ok THEN Failure(get_config(cfg))
    ELSE LET loop == ScoreLoop(Get(parsed.value, "applied_agents", <<>>),
                               cfg.compatibility_threshold, lax, <<>>)
         IN  IF ~loop.ok THEN Failure(loop)
             ELSE Assemble(parsed.value, cb, loop.value)

-----------------------------------------------------------------------------
(* prompts.PromptTemplate.render and RuleValidator._build_validation_prompt. *)
(* A template is the sequence of its placeholders; a prompt is the sequence *)
(* of lines that fill them.                                                 *)

\* an Optional[List] argument: None, or a list
NoRules == [some |-> FALSE, list |-> <<>>]

Rules(list) == [some |-> TRUE, list |-> list]

Placeholders(tmpl) ==
    CASE tmpl = "default" ->
            <<"agents_section", "existing_rules_section", "rule_text">>
      [] tmpl = "unknown_placeholder" ->
            <<"rule_text", "reviewer_notes">>
      [] tmpl = "without_rules_section" ->
            <<"rule_text", "agents_section">>
      [] tmpl = "rules_section_twice" ->
            <<"existing_rules_section", "rule_text", "existing_rules_section">>

Line(kind, v) == [line |-> kind, v |-> v]

RECURSIVE Flatten(_)
Flatten(ss) == IF ss = <<>> THEN <<>> ELSE Head(ss) \o Flatten(Tail(ss))

\* agents_section: one block per agent of agent_prompts
AgentsSection(agent_prompts) ==
    [i \in 1..Len(agent_prompts) |-> Line("agent", <<agent_prompts[i]>>)]

\* the lines render writes for one rule of existing_rules
RuleLines(rule) ==
    <<Line("id", <<Get(rule, "id", "unknown")>>)>>
    \o (IF "validation_metadata" \in DOMAIN rule
        THEN <<Line("applied_to",
                    [i \in 1..Len(Get(rule.validation_metadata, "applied_agents", <<>>)) |->
                        rule.validation_metadata.applied_agents[i].agent_name])>>
        ELSE <<>>)
    \o <<Line("text", <<Get(rule, "rule_text", "")>>)>>

\* the header written whenever existing_rules is a list, an empty one too
ExistingRulesSection_NotNone(rules) ==
    IF rules.some
    THEN <<Line("header", <<"EXISTING ACTIVE RULES">>)>>
         \o Flatten([i \in 1..Len(rules.list) |-> RuleLines(rules.list[i])])
    ELSE <<>>

\* existing_rules_section: "" unless existing_rules is a non-empty list
ExistingRulesSection(rules) ==
    IF rules.some /\ rules.list # <<>>
    THEN <<Line("header", <<"EXISTING ACTIVE RULES">>)>>
         \o Flatten([i \in 1..Len(rules.list) |-> RuleLines(rules.list[i])])
    ELSE <<>>

\* the keyword arguments given to str.format
FormatArgs == {"rule_text", "agents_section", "existing_rules_section"}

\* a: [rule_text, agent_prompts, existing_rules]; self.template.format(...)
\* raises KeyError for a placeholder that is not among its keyword arguments
render(tmpl, a) ==
    LET ph == Placeholders(tmpl)
        fill(name) ==
            CASE name = "rule_text" -> <<Line("rule_text", <<a.rule_text>>)>>
              [] name = "agents_section" -> AgentsSection(a.agent_prompts)
              [] name = "existing_rules_section" -> ExistingRulesSection(a.existing_rules)
    IN  IF \E i \in 1..Len(ph) : ph[i] \notin FormatArgs
        THEN Err("KeyError", <<"unknown placeholder">>)
        ELSE Ok(Flatten([i \in 1..Len(ph) |-> fill(ph[i])]))

\* rule_dict of one CachedRule
RuleDict(rule) ==
    IF "latest_validation" \in DOMAIN rule
    THEN [id |-> rule.id, rule_text |-> rule.rule_text,
          validation_metadata |->
              [applied_agents |->
                  [i \in 1..Len(rule.latest_validation.validation_metadata.applied_agents) |->
                      [agent_name |->
                          rule.latest_validation.validation_metadata.applied_agents[i].agent_name]]]]
    ELSE [id |-> rule.id, rule_text |-> rule.rule_text]

\* existing_rules_data: None unless existing_rules is a non-empty list
ExistingRulesData(rules) ==
    IF rules.some /\ rules.list # <<>>
    THEN Rules([i \in 1..Len(rules.list) |-> RuleDict(rules.list[i])])
    ELSE NoRules

\* the rule text and the agent prompts of the calls of the model
TheRuleText == "new rule"

TheAgentPrompts == <<"AgentA", "AgentB">>

build_validation_prompt(tmpl, rules) ==
    render(tmpl, [rule_text |-> TheRuleText,
                  agent_prompts |-> TheAgentPrompts,
                  existing_rules |-> ExistingRulesData(rules)])

\* the number of ainvoke calls a retry of the model invocation would make
AinvokeCalls_Retry(rendering) == IF rendering.ok THEN 2 ELSE 0

\* response = await self.llm_client.ainvoke(prompt), reached only when the
\* prompt was rendered
AinvokeCalls(rendering) == IF rendering.ok THEN 1 ELSE 0

-----------------------------------------------------------------------------
(* Model responses the language model may produce *)

AllFields ==
    {"agent_name", "role_consistency_score", "authority_expansion_score",
     "instruction_conflicts_score", "rule_to_apply", "analysis", "concerns",
     "overall_compatibility_score"}

MkEntry(keys, name, role, authority, conflicts, supplied) ==
    [k \in keys |->
        CASE k = "agent_name" -> name
          [] k = "role_consistency_score" -> role
          [] k = "authority_expansion_score" -> authority
          [] k = "instruction_conflicts_score" -> conflicts
          [] k = "rule_to_apply" -> "rule for agent"
          [] k = "analysis" -> "analysis text"
          [] k = "concerns" -> <<"concern">>
          [] k = "overall_compatibility_score" -> supplied]

WellFormedKeys == AllFields \ {"overall_compatibility_score"}

\* entries with every field present and each sub-score 0.0 or 1.0
WellFormedEntries ==
    {MkEntry(WellFormedKeys, n, Num(r), Num(a), Num(c), Num(0)) :
        n \in AgentNames, r \in {0, One}, a \in {0, One}, c \in {0, One}}

\* an entry without rule_to_apply, and an entry with a sub-score of 1.5
DefectiveEntries ==
    {MkEntry(WellFormedKeys \ {"rule_to_apply"}, "AgentA", Num(One), Num(One), Num(One), Num(0)),
     MkEntry(WellFormedKeys, "AgentB", Num(One), Num(One + 3), Num(One), Num(0))}

Entries == WellFormedEntries \cup DefectiveEntries

AgentLists == UNION {[1..n -> Entries] : n \in 0..MaxEntries}

MkMapping(keys, agents) ==
    [k \in keys |->
        CASE k = "applied_agents" -> agents
          [] k = "system_summary" -> <<"summary">>
          [] k = "system_summary_en" -> <<"summary_en">>]

Mappings ==
    {MkMapping(keys, agents) :
        keys \in {{"applied_agents"},
                  {"applied_agents", "system_summary", "system_summary_en"}},
        agents \in AgentLists}
    \cup {MkMapping({"system_summary"}, <<>>)}

TextResponse(content) == [kind |-> "text", content |-> content]

Responses ==
    {[kind |-> "raise"]}
    \cup {TextResponse([form |-> f]) : f \in {"empty", "malformed", "array"}}
    \cup {TextResponse([form |-> "object", value |-> m]) : m \in Mappings}

-----------------------------------------------------------------------------
(* Actions *)

\* an optional agent name: None, or a str
NoName == [some |-> FALSE, name |-> ""]

Name(a) == [some |-> TRUE, name |-> a]

\* none of get_rules_for_agent, format_rules_for_prompt and
\* append_rules_to_prompt has been called
NoInject ==
    [op |-> "none", agent_name |-> NoName, product_name |-> "", rules |-> <<>>,
     formatter |-> "none", base_prompt |-> <<>>, formatter_calls |-> 0, result |-> NoResult]

\* no validate_rule call has been made
NoCall ==
    /\ pc = "idle"
    /\ template = "default"
    /\ scoring_callback = "none"
    /\ response = NoResponse
    /\ scored = <<>>
    /\ cb_calls = 0
    /\ cb_arg = <<>>
    /\ result = NoResult
    /\ existing_rules = NoRules
    /\ prompt = <<>>
    /\ llm_calls = 0

\* no concurrent callers
NoCalls == calls = <<>>

\* no pure function has been applied
NoPure ==
    /\ text = <<>>
    /\ parse_result = NoResult
    /\ render_args = [tmpl |-> "default", existing_rules |-> NoRules]
    /\ rendered = NoResult
    /\ inject = NoInject

\* a dict without keys
EmptyDict == [k \in {} |-> <<>>]

NoFetch == [pc |-> "idle", product_name |-> "", response |-> NoResponse, result |-> NoResult]

NoRequest ==
    [route |-> "none", key |-> "", product_name |-> "", status |-> 0, detail |-> "",
     rule_count |-> 0]

\* RuleCache.__init__: both dicts empty; no fetch under way, no request
EmptyCache ==
    /\ cache = EmptyDict
    /\ last_refresh = EmptyDict
    /\ refreshed = EmptyDict
    /\ clock = 1
    /\ fetch = NoFetch
    /\ http = NoRequest

Init ==
    /\ config = NoConfig
    /\ init_call = NoInitialize
    /\ pydantic_bool_float \in BOOLEAN
    /\ NoCall
    /\ NoCalls
    /\ NoPure
    /\ EmptyCache

\* config.initialize: global _config; _config = config.  RMSConfig.validate
\* has checked 0.0 <= compatibility_threshold <= 1.0.  pc = "done" is the
\* instant validate_rule returns: no await separates get_config from it.
Initialize(threshold) ==
    /\ pc # "done"
    /\ config' = [initialized |-> TRUE, compatibility_threshold |-> threshold]
    /\ UNCHANGED <<init_call, pydantic_bool_float, call_vars, calls, pure_vars, cache_vars>>

\* validate_rule up to "await self.llm_client.ainvoke(prompt)"
CallBody(cb, tmpl, rules) ==
    /\ pc = "idle"
    /\ template' = tmpl
    /\ scoring_callback' = cb
    /\ existing_rules' = rules
    /\ llm_calls' = AinvokeCalls(build_validation_prompt(tmpl, rules))
    /\ IF build_validation_prompt(tmpl, rules).ok
       THEN /\ pc' = "awaiting"
            /\ prompt' = build_validation_prompt(tmpl, rules).value
            /\ result' = NoResult
       ELSE /\ pc' = "done"
            /\ prompt' = <<>>
            /\ result' = ExceptHandler(build_validation_prompt(tmpl, rules))
    /\ UNCHANGED <<response, scored, cb_calls, cb_arg>>

\* a validate_rule call made directly by a caller
Call(cb, tmpl, rules) ==
    /\ CallBody(cb, tmpl, rules)
    /\ UNCHANGED <<config, init_call, pydantic_bool_float, calls, pure_vars, cache_vars>>

\* validate_rule from the return of ainvoke to its end
LlmReturnBody(r) ==
    /\ pc = "awaiting"
    /\ response' = r
    /\ LET end == IF r.kind = "raise"
                  THEN Failure(Err("Exception", <<"LLM API error">>))
                  ELSE AfterInvoke(r.content, config, scoring_callback,
                                   pydantic_bool_float)
       IN  /\ scored' = end.scored
           /\ cb_calls' = end.cb_calls
           /\ cb_arg' = end.cb_arg
           /\ result' = end.result
    /\ pc' = "done"
    /\ UNCHANGED <<template, scoring_callback, existing_rules, prompt, llm_calls>>

\* ainvoke returns or raises, and validate_rule runs to its end
LlmReturn(r) ==
    /\ LlmReturnBody(r)
    /\ UNCHANGED <<config, init_call, pydantic_bool_float, calls, pure_vars, cache_vars>>

\* the outcome of the call is taken; the validator is left as constructed
ReturnBody ==
    /\ pc = "done"
    /\ pc' = "idle"
    /\ template' = "default"
    /\ scoring_callback' = "none"
    /\ response' = NoResponse
    /\ scored' = <<>>
    /\ cb_calls' = 0
    /\ cb_arg' = <<>>
    /\ result' = NoResult
    /\ existing_rules' = NoRules
    /\ prompt' = <<>>
    /\ llm_calls' = 0

\* the caller has taken the outcome; the validator is ready for another call
Return ==
    /\ ReturnBody
    /\ UNCHANGED <<config, init_call, pydantic_bool_float, calls, pure_vars, cache_vars>>

\* a caller awaits validate_rule
StartCall == pc = "idle" /\ \E cb \in Callbacks, tmpl \in Templates : Call(cb, tmpl, NoRules)

\* the language model answers the pending call
ModelResponds == pc = "awaiting" /\ \E r \in Responses : LlmReturn(r)

Next ==
    \/ \E threshold \in Thresholds : Initialize(threshold)
    \/ StartCall
    \/ ModelResponds
    \/ Return

Spec == Init /\ [][Next]_vars

-----------------------------------------------------------------------------
(* The scoring of a single response entry, over every shape of entry: each  *)
(* field present or absent, each sub-score any JSON value.                  *)

ScoreValues ==
    {Num(0 - 3), Num(0), Num(3), Num(One), Num(One + 3), JsonTrue, JsonString}

AnyEntries ==
    {MkEntry(keys, "AgentA", r, a, c, Num(One)) :
        keys \in SUBSET AllFields,
        r \in ScoreValues, a \in ScoreValues, c \in ScoreValues}

PlainEntry ==
    MkEntry(WellFormedKeys, "AgentB", Num(One), Num(3), Num(3), Num(0))

AnyEntryResponses ==
    {TextResponse([form |-> "object",
                   value |-> MkMapping({"applied_agents"}, agents)]) :
        agents \in {<<e>> : e \in AnyEntries}
                   \cup {<<PlainEntry, e>> : e \in AnyEntries}}

InitScore ==
    /\ config \in {[initialized |-> TRUE, compatibility_threshold |-> t] :
                      t \in Thresholds}
    /\ init_call = NoInitialize
    /\ pydantic_bool_float \in BOOLEAN
    /\ NoCall
    /\ NoCalls
    /\ NoPure
    /\ EmptyCache

\* a call without a callback, through the default template
StartPlainCall == Call("none", "default", NoRules)

\* the language model answers with a response of one arbitrary entry
ModelRespondsAnyEntry == pc = "awaiting" /\ \E r \in AnyEntryResponses : LlmReturn(r)

NextScore ==
    \/ StartPlainCall
    \/ ModelRespondsAnyEntry
    \/ Return

SpecScore == InitScore /\ [][NextScore]_vars

-----------------------------------------------------------------------------
(* safe_json_parse applied to texts: up to MaxPieces pieces, each a fenced  *)
(* block (untagged or tagged) around a payload, a bare payload, a newline   *)
(* or a stray fence.                                                        *)

MaxPieces == 3

BlockTags == {<<>>, <<"json">>, <<"JSON">>, <<"Json">>, <<"python">>}

BlockBodies == {<<"obj1">>, <<"obj2">>, <<"arr">>, <<"junk">>}

Block(tag, body) == <<"fence">> \o tag \o <<"nl">> \o body \o <<"nl", "fence">>

Pieces ==
    {Block(tag, body) : tag \in BlockTags, body \in BlockBodies}
    \cup {<<"obj1">>, <<"arr">>, <<"scalar">>, <<"junk">>, <<"nl">>, <<"fence">>}

Texts == {Flatten(ps) : ps \in UNION {[1..n -> Pieces] : n \in 0..MaxPieces}}

\* how a call of a function ended: with a value or with an exception
Ended(r) ==
    IF r.ok THEN Returned(r.value)
    ELSE [kind |-> "raised", exc |-> r.exc, msg |-> r.msg]

InitParse ==
    /\ config = NoConfig
    /\ init_call = NoInitialize
    /\ pydantic_bool_float = FALSE
    /\ NoCall
    /\ NoCalls
    /\ text \in Texts
    /\ parse_result = NoResult
    /\ render_args = [tmpl |-> "default", existing_rules |-> NoRules]
    /\ rendered = NoResult
    /\ inject = NoInject
    /\ EmptyCache

\* safe_json_parse(text)
ParseText ==
    /\ parse_result = NoResult
    /\ parse_result' = Ended(safe_json_parse(ReadContent(text)))
    /\ UNCHANGED <<config, init_call, pydantic_bool_float, call_vars, calls, cache_vars>>
    /\ UNCHANGED <<text, render_args, rendered, inject>>

NextParse == ParseText

SpecParse == InitParse /\ [][NextParse]_vars

-----------------------------------------------------------------------------
(* Concurrent validate_rule calls on one validator: every caller has its   *)
(* own coroutine; the coroutines share the global configuration.           *)

NumCallers == 2

Callers == 1..NumCallers

\* the locals of a coroutine: at_start is the configuration in force when
\* the coroutine was started, kept for the properties
IdleCall ==
    [pc |-> "idle", at_start |-> NoConfig, response |-> NoResponse, result |-> NoResult]

\* two entries: one whose mean is 1.0 and one whose mean is 2/3
TwoEntries ==
    <<MkEntry(WellFormedKeys, "AgentA", Num(One), Num(One), Num(One), Num(0)),
      MkEntry(WellFormedKeys, "AgentB", Num(One), Num(3), Num(3), Num(0))>>

ConcurrentResponses ==
    {[kind |-> "raise"], TextResponse([form |-> "malformed"])}
    \cup {TextResponse([form |-> "object", value |-> MkMapping({"applied_agents"}, agents)]) :
             agents \in {<<>>, SubSeq(TwoEntries, 2, 2), TwoEntries}}

\* validate_rule from the return of ainvoke to its end, for a call without
\* callback; cfg is the global configuration at the time the coroutine
\* resumes: get_config() is called after the await
OutcomeOfCall(r, cfg, lax) ==
    IF r.kind = "raise"
    THEN ExceptHandler(Err("Exception", <<"LLM API error">>))
    ELSE AfterInvoke(r.content, cfg, "none", lax).result

InitConcurrent ==
    /\ config = NoConfig
    /\ init_call = NoInitialize
    /\ pydantic_bool_float \in BOOLEAN
    /\ NoCall
    /\ calls = [c \in Callers |-> IdleCall]
    /\ NoPure
    /\ EmptyCache

\* caller c awaits validate_rule: the prompt is rendered, ainvoke is awaited
CallerStarts(c) ==
    /\ calls[c].pc = "idle"
    /\ build_validation_prompt("default", NoRules).ok
    /\ calls' = [calls EXCEPT ![c] = [pc |-> "awaiting", at_start |-> config,
                                      response |-> NoResponse, result |-> NoResult]]
    /\ UNCHANGED <<config, init_call, pydantic_bool_float, call_vars, pure_vars, cache_vars>>

\* the model answers caller c, whose coroutine runs to its end
CallerResumes(c, r) ==
    /\ calls[c].pc = "awaiting"
    /\ calls' = [calls EXCEPT ![c] =
                    [pc |-> "done", at_start |-> calls[c].at_start, response |-> r,
                     result |-> OutcomeOfCall(r, config, pydantic_bool_float)]]
    /\ UNCHANGED <<config, init_call, pydantic_bool_float, call_vars, pure_vars, cache_vars>>

\* caller c has taken the outcome
CallerReturns(c) ==
    /\ calls[c].pc = "done"
    /\ calls' = [calls EXCEPT ![c] = IdleCall]
    /\ UNCHANGED <<config, init_call, pydantic_bool_float, call_vars, pure_vars, cache_vars>>

\* config.initialize while callers are suspended
Reinitialize == \E threshold \in Thresholds : Initialize(threshold)

SomeCallerStarts == \E c \in Callers : CallerStarts(c)

SomeCallerResumes ==
    \E c \in Callers : calls[c].pc = "awaiting" /\ \E r \in ConcurrentResponses : CallerResumes(c, r)

SomeCallerReturns == \E c \in Callers : CallerReturns(c)

NextConcurrent ==
    \/ Reinitialize
    \/ SomeCallerStarts
    \/ SomeCallerResumes
    \/ SomeCallerReturns

SpecConcurrent == InitConcurrent /\ [][NextConcurrent]_vars

-----------------------------------------------------------------------------
(* PromptTemplate.render applied to templates and lists of rule dicts *)

MaxRules == 2

RenderTemplates == Templates \cup {"without_rules_section", "rules_section_twice"}

MkRuleDict(keys, id, rule_text, agents) ==
    [k \in keys |->
        CASE k = "id" -> id
          [] k = "rule_text" -> rule_text
          [] k = "validation_metadata" -> [applied_agents |-> agents]]

\* rule dicts with and without id and validation_metadata
RuleDicts ==
    {MkRuleDict(keys, id, rule_text, agents) :
        keys \in {{"id", "rule_text"}, {"rule_text"},
                  {"id", "rule_text", "validation_metadata"}},
        id \in {"rule-1", "rule-2"},
        rule_text \in {"Existing rule 1", "Existing rule 2"},
        agents \in {<<>>, <<[agent_name |-> "AgentA"]>>}}

\* existing_rules: None, or a list of up to MaxRules rule dicts
RuleDictLists ==
    {NoRules} \cup {Rules(l) : l \in UNION {[1..n -> RuleDicts] : n \in 0..MaxRules}}

InitRender ==
    /\ config = NoConfig
    /\ init_call = NoInitialize
    /\ pydantic_bool_float = FALSE
    /\ NoCall
    /\ NoCalls
    /\ text = <<>>
    /\ parse_result = NoResult
    /\ render_args \in [tmpl : RenderTemplates, existing_rules : RuleDictLists]
    /\ rendered = NoResult
    /\ inject = NoInject
    /\ EmptyCache

\* template.render(rule_text, agent_prompts, existing_rules)
RenderPrompt ==
    /\ rendered = NoResult
    /\ rendered' = Ended(render(render_args.tmpl,
                                [rule_text |-> TheRuleText,
                                 agent_prompts |-> TheAgentPrompts,
                                 existing_rules |-> render_args.existing_rules]))
    /\ UNCHANGED <<config, init_call, pydantic_bool_float, call_vars, calls, cache_vars>>
    /\ UNCHANGED <<text, parse_result, render_args, inject>>

NextRender == RenderPrompt

SpecRender == InitRender /\ [][NextRender]_vars

-----------------------------------------------------------------------------
(* cache.RuleCache: get_active_rules, refresh_rules, fetch_from_rms, and    *)
(* the handler of POST /internal/rules/validate that reads the cache.       *)

MaxClock == 2

Products == {"product1", "product2"}

\* two cached rules; the fields max_length, risk_level, status, created_at
\* and updated_at are present in every rule and left out
Rule1 == [id |-> "rule1", product_name |-> "product1", rule_text |-> "Original rule 1"]

Rule2 ==
    [id |-> "rule2", product_name |-> "product2", rule_text |-> "Original rule 2",
     latest_validation |->
        [validation_metadata |-> [applied_agents |-> <<[agent_name |-> "AgentA"]>>]]]

RuleLists == {<<>>, <<Rule1, Rule2>>, <<Rule2, Rule1>>}

\* d.setdefault(k, v): an existing value is kept
Put_KeepExisting(d, k, v) == [x \in DOMAIN d \cup {k} |-> IF x = k /\ k \notin DOMAIN d THEN v ELSE d[x]]

\* d[k] = v on a dict
Put(d, k, v) == [x \in DOMAIN d \cup {k} |-> IF x = k THEN v ELSE d[x]]

\* self._cache.setdefault(product_name, []) instead of .get
get_active_rules_SetDefault(c, product_name) ==
    [cache |-> IF product_name \in DOMAIN c THEN c ELSE Put(c, product_name, <<>>),
     rules |-> Get(c, product_name, <<>>)]

\* return self._cache.get(product_name, []): the cache it leaves, the list
\* it returns
get_active_rules(c, product_name) ==
    [cache |-> c, rules |-> Get(c, product_name, <<>>)]

\* the timestamp assignment not yet made: the state another coroutine would
\* see if a suspension point separated the two assignments
set_last_refresh_Pending(lr, product_name, now) == lr

\* self._last_refresh[product_name] = datetime.now(), in the same
\* uninterrupted run of the coroutine as the assignment to self._cache
set_last_refresh(lr, product_name, now) == Put(lr, product_name, now)

\* the whole dicts replaced instead of one key assigned
refresh_rules_ReplaceAll(c, product_name, rules, now) ==
    [cache |-> Put(EmptyDict, product_name, rules),
     last_refresh |-> Put(EmptyDict, product_name, now)]

\* self._cache[product_name] = rules; self._last_refresh[product_name] = now.
\* c: [cache, last_refresh]
refresh_rules(c, product_name, rules, now) ==
    [cache |-> Put(c.cache, product_name, rules),
     last_refresh |-> set_last_refresh(c.last_refresh, product_name, now)]

\* the history h after a refresh_rules(product_name, rules) call has completed
Noted(h, product_name, rules) ==
    [p \in DOMAIN h \cup {product_name} |-> IF p = product_name THEN rules ELSE h[p]]

\* get_last_refresh: None, or the datetime of the last refresh
NoTime == [some |-> FALSE, at |-> 0]

Time(t) == [some |-> TRUE, at |-> t]

\* return self._last_refresh.get(product_name)
get_last_refresh(lr, product_name) ==
    IF product_name \in DOMAIN lr THEN Time(lr[product_name]) ELSE NoTime

\* CachedRule(**rule): every field but latest_validation is required
CachedRule(rule) ==
    IF {"id", "product_name", "rule_text"} \subseteq DOMAIN rule
    THEN Ok(rule)
    ELSE Err("ValidationError", <<"CachedRule">>)

\* [CachedRule(**rule) for rule in data]: iterating a dict yields its keys,
\* and ** applied to a str raises TypeError
RulesOfBody(data) ==
    CASE data.form = "list" ->
            IF \A i \in 1..Len(data.items) : CachedRule(data.items[i]).ok
            THEN Ok(data.items)
            ELSE Err("ValidationError", <<"CachedRule">>)
      [] data.form = "object" ->
            IF data.keys = {} THEN Ok(<<>>)
            ELSE Err("TypeError", <<"argument after ** must be a mapping, not str">>)

\* what the RMS may answer to GET /rules/active/{product_name}
Bodies ==
    {[form |-> "not_json"]}
    \cup {[form |-> "list", items |-> l] : l \in RuleLists}
    \cup {[form |-> "list", items |-> <<Rule1, [id |-> "rule3"]>>]}
    \cup {[form |-> "object", keys |-> {"rules"}, rules |-> l] : l \in {<<Rule1, Rule2>>}}
    \cup {[form |-> "object", keys |-> {}, rules |-> <<>>]}

RmsResponses ==
    {[kind |-> k] : k \in {"timeout", "transport_error", "error_status"}}
    \cup {[kind |-> "ok", body |-> b] : b \in Bodies}

\* the try block of fetch_from_rms once client.get has ended: Ok(rules) when
\* refresh_rules is reached, else the exception that one of the handlers logs
FetchedRules(r) ==
    CASE r.kind = "timeout" -> Err("TimeoutException", <<"Timeout">>)
      [] r.kind = "transport_error" -> Err("HTTPError", <<"Server error">>)
      [] r.kind = "error_status" -> Err("HTTPStatusError", <<"raise_for_status">>)
      [] r.kind = "ok" ->
            IF r.body.form = "not_json" THEN Err("JSONDecodeError", <<"response.json()">>)
            ELSE RulesOfBody(r.body)

InitCache ==
    /\ config = NoConfig
    /\ init_call = NoInitialize
    /\ pydantic_bool_float = FALSE
    /\ NoCall
    /\ NoCalls
    /\ NoPure
    /\ EmptyCache

\* config.initialize(config, fetch_rules_on_init=False)
Configure == Initialize(3)

\* time passes
Tick ==
    /\ clock < MaxClock
    /\ clock' = clock + 1
    /\ UNCHANGED <<config, init_call, pydantic_bool_float, call_vars, calls, pure_vars>>
    /\ UNCHANGED <<cache, last_refresh, refreshed, fetch, http>>

\* await _cache.refresh_rules(product_name, rules)
Refresh(product_name, rules) ==
    /\ cache' = refresh_rules([cache |-> cache, last_refresh |-> last_refresh],
                              product_name, rules, clock).cache
    /\ last_refresh' = refresh_rules([cache |-> cache, last_refresh |-> last_refresh],
                                     product_name, rules, clock).last_refresh
    /\ refreshed' = Noted(refreshed, product_name, rules)
    /\ UNCHANGED <<config, init_call, pydantic_bool_float, call_vars, calls, pure_vars>>
    /\ UNCHANGED <<clock, fetch, http>>

\* fetch_from_rms up to "await client.get(url, headers=headers)"; get_config
\* is called before the try block
FetchStart(product_name) ==
    /\ fetch.pc = "idle"
    /\ IF get_config(config).ok
       THEN fetch' = [pc |-> "awaiting", product_name |-> product_name,
                      response |-> NoResponse, result |-> NoResult]
       ELSE fetch' = [pc |-> "done", product_name |-> product_name,
                      response |-> NoResponse,
                      result |-> Ended(get_config(config))]
    /\ UNCHANGED <<config, init_call, pydantic_bool_float, call_vars, calls, pure_vars>>
    /\ UNCHANGED <<cache, last_refresh, refreshed, clock, http>>

\* client.get ends and fetch_from_rms runs to its end
FetchRespond(r) ==
    /\ fetch.pc = "awaiting"
    /\ fetch' = [pc |-> "done", product_name |-> fetch.product_name,
                 response |-> r, result |-> Returned(<<>>)]
    /\ IF FetchedRules(r).ok
       THEN /\ cache' = refresh_rules([cache |-> cache, last_refresh |-> last_refresh],
                                      fetch.product_name, FetchedRules(r).value, clock).cache
            /\ last_refresh' =
                  refresh_rules([cache |-> cache, last_refresh |-> last_refresh],
                                fetch.product_name, FetchedRules(r).value, clock).last_refresh
            /\ refreshed' = Noted(refreshed, fetch.product_name, FetchedRules(r).value)
       ELSE UNCHANGED <<cache, last_refresh, refreshed>>
    /\ UNCHANGED <<config, init_call, pydantic_bool_float, call_vars, calls, pure_vars>>
    /\ UNCHANGED <<clock, http>>

\* the caller of fetch_from_rms has taken its outcome
FetchReturn ==
    /\ fetch.pc = "done"
    /\ fetch' = NoFetch
    /\ UNCHANGED <<config, init_call, pydantic_bool_float, call_vars, calls, pure_vars>>
    /\ UNCHANGED <<cache, last_refresh, refreshed, clock, http>>

\* the refresh_rules coroutine is awaited for some product and rule list
SomeRefresh == \E p \in Products, rules \in RuleLists : Refresh(p, rules)

\* fetch_from_rms is awaited for some product
SomeFetchStart == \E p \in Products : FetchStart(p)

\* the RMS answers the pending request, or the request fails
RmsResponds == fetch.pc = "awaiting" /\ \E r \in RmsResponses : FetchRespond(r)

\* what the language model does in the runs of the cache: it fails, or it
\* answers with two entries
ValidationResponses ==
    {[kind |-> "raise"],
     TextResponse([form |-> "object", value |-> MkMapping({"applied_agents"}, TwoEntries)])}

\* a caller awaits validate_rule with rules it read from the cache
DirectCall ==
    /\ http.route = "none"
    /\ \E p \in Products :
          Call("none", "default", Rules(get_active_rules(cache, p).rules))

\* the language model answers a call that no request made
DirectResponds ==
    /\ http.route = "none"
    /\ pc = "awaiting"
    /\ \E r \in ValidationResponses : LlmReturn(r)

\* the caller of validate_rule takes the outcome
DirectReturn == http.route = "none" /\ Return

\* the status of the response: 200 with the RuleValidation that validate_rule
\* returned, 500 when it raised
StatusOf(res) == IF res.kind = "returned" THEN 200 ELSE 500

\* values of the X-Internal-API-Key header
ApiKeys == {ConfigApiKey, "wrong-api-key", ""}

\* the dependency verify_api_key that accepts every key
verify_api_key_AcceptAll(cfg, x_internal_api_key) ==
    IF ~get_config(cfg).ok THEN get_config(cfg) ELSE Ok(TRUE)

\* the dependency verify_api_key: HTTPException 401 unless the header is the
\* configured key
verify_api_key(cfg, x_internal_api_key) ==
    IF ~get_config(cfg).ok THEN get_config(cfg)
    ELSE IF x_internal_api_key # ConfigApiKey
    THEN Err("HTTPException", <<"401", "Invalid API key">>)
    ELSE Ok(TRUE)

\* the response to a request whose dependency raised: the HTTPException as
\* it is, any other exception as 500 Internal Server Error
Rejection(route, key, err) ==
    [NoRequest EXCEPT
        !.route = route,
        !.key = key,
        !.status = IF err.exc = "HTTPException" THEN 401 ELSE 500,
        !.detail = IF err.exc = "HTTPException" THEN err.msg[2] ELSE "Internal Server Error"]

\* POST /internal/rules/validate: the dependency, then the handler up to the
\* await inside validate_rule; any exception in the handler becomes HTTP 500
PostValidate(key, product_name) ==
    /\ http.route = "none"
    /\ pc = "idle"
    /\ IF verify_api_key(config, key).ok
       THEN /\ cache' = get_active_rules(cache, product_name).cache
            /\ CallBody("none", "default", Rules(get_active_rules(cache, product_name).rules))
            /\ http' = [NoRequest EXCEPT
                          !.route = "validate",
                          !.key = key,
                          !.product_name = product_name,
                          !.status = IF build_validation_prompt("default",
                                            Rules(get_active_rules(cache, product_name).rules)).ok
                                     THEN 0 ELSE StatusOf(result')]
       ELSE /\ http' = Rejection("validate", key, verify_api_key(config, key))
            /\ UNCHANGED <<cache, call_vars>>
    /\ UNCHANGED <<config, init_call, pydantic_bool_float, calls, pure_vars>>
    /\ UNCHANGED <<last_refresh, refreshed, clock, fetch>>

\* ainvoke ends, validate_rule runs to its end and the handler answers
ValidateResponds(r) ==
    /\ http.route = "validate"
    /\ http.status = 0
    /\ LlmReturnBody(r)
    /\ http' = [http EXCEPT !.status = StatusOf(result')]
    /\ UNCHANGED <<config, init_call, pydantic_bool_float, calls, pure_vars>>
    /\ UNCHANGED <<cache, last_refresh, refreshed, clock, fetch>>

\* the handler without "if request.rules: product_name = ..."
RefreshProduct_Configured(rules) == ConfigProductName

\* the product the handler of /rules/refresh stores the rules under
RefreshProduct(rules) == IF rules # <<>> THEN rules[1].product_name ELSE ConfigProductName

\* POST /internal/rules/refresh with the body {"rules": rules}: the
\* dependency, then the whole handler
PostRefresh(key, rules) ==
    /\ http.route = "none"
    /\ IF verify_api_key(config, key).ok
       THEN /\ cache' = refresh_rules([cache |-> cache, last_refresh |-> last_refresh],
                                      RefreshProduct(rules), rules, clock).cache
            /\ last_refresh' =
                  refresh_rules([cache |-> cache, last_refresh |-> last_refresh],
                                RefreshProduct(rules), rules, clock).last_refresh
            /\ refreshed' = Noted(refreshed, RefreshProduct(rules), rules)
            /\ http' = [NoRequest EXCEPT
                          !.route = "refresh",
                          !.key = key,
                          !.product_name = RefreshProduct(rules),
                          !.status = 200,
                          !.rule_count = Len(rules)]
       ELSE /\ http' = Rejection("refresh", key, verify_api_key(config, key))
            /\ UNCHANGED <<cache, last_refresh, refreshed>>
    /\ UNCHANGED <<config, init_call, pydantic_bool_float, call_vars, calls, pure_vars>>
    /\ UNCHANGED <<clock, fetch>>

\* the response has been sent
HttpClose ==
    /\ http.route # "none"
    /\ http.status # 0
    /\ IF http.route = "validate" /\ pc = "done" THEN ReturnBody ELSE UNCHANGED call_vars
    /\ http' = NoRequest
    /\ UNCHANGED <<config, init_call, pydantic_bool_float, calls, pure_vars>>
    /\ UNCHANGED <<cache, last_refresh, refreshed, clock, fetch>>

SomePostValidate == \E key \in ApiKeys, p \in Products : PostValidate(key, p)

SomePostRefresh == \E key \in ApiKeys, rules \in RuleLists : PostRefresh(key, rules)

RequestModelResponds ==
    /\ pc = "awaiting"
    /\ \E r \in ValidationResponses : ValidateResponds(r)

NextCache ==
    \/ Configure
    \/ Tick
    \/ SomeRefresh
    \/ SomeFetchStart
    \/ RmsResponds
    \/ FetchReturn
    \/ DirectCall
    \/ DirectResponds
    \/ DirectReturn
    \/ SomePostValidate
    \/ SomePostRefresh
    \/ RequestModelResponds
    \/ HttpClose

SpecCache == InitCache /\ [][NextCache]_vars

-----------------------------------------------------------------------------
(* Prompt injection: cache.get_rules_for_agent, cache.format_rules_for_prompt *)
(* and RulesAppender.append_rules_to_prompt.  A str is a sequence of chunks.  *)

MaxCached == 2

\* a piece of a str: a newline, a fixed text, a numbered rule line, or what a
\* custom formatter wrote for a rule list
Chunk(kind, i, s) == [kind |-> kind, i |-> i, s |-> s]

Nl == Chunk("nl", 0, <<>>)

Str(s) == Chunk("str", 0, <<s>>)

\* f"{i}. {rule}"
Numbered(i, rule) == Chunk("item", i, <<rule>>)

\* the inner loop without its break
AgentLoop_NoBreak(applied_agents, agent_name) ==
    LET named == {i \in 1..Len(applied_agents) : applied_agents[i].agent_name = agent_name}
        RECURSIVE Collect(_)
        Collect(i) ==
            IF i > Len(applied_agents) THEN <<>>
            ELSE (IF i \in named THEN <<applied_agents[i].rule_to_apply>> ELSE <<>>)
                 \o Collect(i + 1)
    IN  Collect(1)

\* for agent_info in applied_agents: if agent_info.agent_name == agent_name:
\* agent_rules.append(agent_info.rule_to_apply); break
AgentLoop(applied_agents, agent_name) ==
    LET RECURSIVE Loop(_)
        Loop(i) ==
            IF i > Len(applied_agents) THEN <<>>
            ELSE IF applied_agents[i].agent_name = agent_name
            THEN <<applied_agents[i].rule_to_apply>>
            ELSE Loop(i + 1)
    IN  Loop(1)

\* the texts one cached rule contributes when agent_name is given
TextsOfRule(rule, agent_name) ==
    IF "latest_validation" \notin DOMAIN rule
    THEN <<rule.rule_text>>
    ELSE AgentLoop(rule.latest_validation.validation_metadata.applied_agents, agent_name)

\* the text one cached rule contributes when agent_name is None
TextOfRule(rule) ==
    IF /\ "latest_validation" \in DOMAIN rule
       /\ rule.latest_validation.validation_metadata.applied_agents # <<>>
    THEN rule.latest_validation.validation_metadata.applied_agents[1].rule_to_apply
    ELSE rule.rule_text

\* get_rules_for_agent(agent_name, product_name); product_name "" or None
\* stands for the configured product
get_rules_for_agent(cfg, c, agent_name, product_name) ==
    IF ~get_config(cfg).ok THEN get_config(cfg)
    ELSE LET product == IF product_name # "" THEN product_name ELSE ConfigProductName
             rules == get_active_rules(c, product).rules
         IN  IF agent_name.some
             THEN Ok(Flatten([i \in 1..Len(rules) |-> TextsOfRule(rules[i], agent_name.name)]))
             ELSE Ok([i \in 1..Len(rules) |-> TextOfRule(rules[i])])

Formatters == {"none", "join", "raise", "returns_list"}

\* formatter(rules) for the custom formatters of the model: one returns a
\* str, one raises, one returns a list
CallFormatter(formatter, rules) ==
    CASE formatter = "join" -> Ok([str |-> TRUE, text |-> <<Chunk("custom", 0, rules)>>])
      [] formatter = "raise" -> Err("ValueError", <<"formatter failed">>)
      [] formatter = "returns_list" -> Ok([str |-> FALSE, text |-> <<>>])

\* formatted = "\n\n## Additional Rules\n\n"
DefaultHeading == "## Additional Rules"

\* format_rules_for_prompt(rules, formatter): what it returns or raises and
\* how often it called the formatter
format_rules_for_prompt(rules, formatter) ==
    IF rules = <<>> THEN [calls |-> 0, out |-> Ok([str |-> TRUE, text |-> <<>>])]
    ELSE IF formatter # "none" THEN [calls |-> 1, out |-> CallFormatter(formatter, rules)]
    ELSE [calls |-> 0,
          out |-> Ok([str |-> TRUE,
                      text |-> <<Nl, Nl, Str(DefaultHeading), Nl, Nl,
                                 Str("The following rules must be followed:"), Nl, Nl>>
                               \o Flatten([i \in 1..Len(rules) |->
                                              <<Numbered(i, rules[i]), Nl>>])])]

\* the try block of append_rules_to_prompt; str + list raises TypeError
AppendBody(cfg, c, self, base_prompt, agent_name) ==
    LET got == get_rules_for_agent(cfg, c, Name(agent_name), self.product_name)
        formatted == format_rules_for_prompt(got.value, self.formatter)
    IN  IF ~got.ok THEN [calls |-> 0, out |-> got]
        ELSE IF got.value = <<>> THEN [calls |-> 0, out |-> Ok(base_prompt)]
        ELSE IF ~formatted.out.ok THEN formatted
        ELSE IF ~formatted.out.value.str
        THEN [calls |-> formatted.calls,
              out |-> Err("TypeError", <<"can only concatenate str">>)]
        ELSE [calls |-> formatted.calls, out |-> Ok(base_prompt \o formatted.out.value.text)]

\* append_rules_to_prompt without its except clause
append_rules_to_prompt_NoHandler(cfg, c, self, base_prompt, agent_name) ==
    [calls |-> AppendBody(cfg, c, self, base_prompt, agent_name).calls,
     out |-> AppendBody(cfg, c, self, base_prompt, agent_name).out]

\* append_rules_to_prompt: except Exception: return base_prompt
append_rules_to_prompt(cfg, c, self, base_prompt, agent_name) ==
    [calls |-> AppendBody(cfg, c, self, base_prompt, agent_name).calls,
     out |-> IF AppendBody(cfg, c, self, base_prompt, agent_name).out.ok
             THEN AppendBody(cfg, c, self, base_prompt, agent_name).out
             ELSE Ok(base_prompt)]

\* cached rules for the injection: without a validation, or with a
\* validation that applies them to none, one or two agent entries
AppliedEntries ==
    {[agent_name |-> "AgentA", rule_to_apply |-> "for A"],
     [agent_name |-> "AgentB", rule_to_apply |-> "for B"],
     [agent_name |-> "AgentA", rule_to_apply |-> "again for A"]}

AppliedLists == UNION {[1..n -> AppliedEntries] : n \in 0..2}

InjectRules ==
    {[id |-> "rule1", product_name |-> "product1", rule_text |-> t] : t \in {"text1", "text2"}}
    \cup {[id |-> "rule2", product_name |-> "product1", rule_text |-> "text2",
           latest_validation |-> [validation_metadata |-> [applied_agents |-> l]]] :
             l \in AppliedLists}

InjectRuleLists == UNION {[1..n -> InjectRules] : n \in 0..MaxCached}

RuleTexts == {<<>>, <<"text1">>, <<"text1", "text2">>, <<"text2", "text1", "text2">>}

BasePrompts == {<<>>, <<Str("You are a helpful assistant")>>}

\* a cache whose configured product was refreshed once, or never
InitInject ==
    /\ config \in {NoConfig, [initialized |-> TRUE, compatibility_threshold |-> 3]}
    /\ init_call = NoInitialize
    /\ pydantic_bool_float = FALSE
    /\ NoCall
    /\ NoCalls
    /\ NoPure
    /\ \E l \in InjectRuleLists :
          \/ /\ l = <<>>
             /\ cache = EmptyDict
             /\ last_refresh = EmptyDict
             /\ refreshed = EmptyDict
          \/ /\ cache = Put(EmptyDict, ConfigProductName, l)
             /\ last_refresh = Put(EmptyDict, ConfigProductName, 1)
             /\ refreshed = Noted(EmptyDict, ConfigProductName, l)
    /\ clock = 1
    /\ fetch = NoFetch
    /\ http = NoRequest

\* rules = await get_rules_for_agent(agent_name, product_name)
GetRulesForAgent(agent_name, product_name) ==
    /\ inject.op = "none"
    /\ inject' = [NoInject EXCEPT
                    !.op = "get_rules_for_agent",
                    !.agent_name = agent_name,
                    !.product_name = product_name,
                    !.result = Ended(get_rules_for_agent(config, cache, agent_name,
                                                         product_name))]
    /\ UNCHANGED <<config, init_call, pydantic_bool_float, call_vars, calls, cache_vars>>
    /\ UNCHANGED <<text, parse_result, render_args, rendered>>

\* format_rules_for_prompt(rules, formatter)
FormatRules(rules, formatter) ==
    /\ inject.op = "none"
    /\ inject' = [NoInject EXCEPT
                    !.op = "format_rules_for_prompt",
                    !.rules = rules,
                    !.formatter = formatter,
                    !.formatter_calls = format_rules_for_prompt(rules, formatter).calls,
                    !.result = Ended(format_rules_for_prompt(rules, formatter).out)]
    /\ UNCHANGED <<config, init_call, pydantic_bool_float, call_vars, calls, cache_vars>>
    /\ UNCHANGED <<text, parse_result, render_args, rendered>>

\* await RulesAppender(product_name, formatter).append_rules_to_prompt(
\* base_prompt, agent_name)
AppendRules(product_name, formatter, base_prompt, agent_name) ==
    /\ inject.op = "none"
    /\ LET self == [product_name |-> product_name, formatter |-> formatter]
           end == append_rules_to_prompt(config, cache, self, base_prompt, agent_name)
       IN  inject' = [NoInject EXCEPT
                        !.op = "append_rules_to_prompt",
                        !.agent_name = Name(agent_name),
                        !.product_name = product_name,
                        !.formatter = formatter,
                        !.base_prompt = base_prompt,
                        !.formatter_calls = end.calls,
                        !.result = Ended(end.out)]
    /\ UNCHANGED <<config, init_call, pydantic_bool_float, call_vars, calls, cache_vars>>
    /\ UNCHANGED <<text, parse_result, render_args, rendered>>

SomeGetRulesForAgent ==
    \E a \in {NoName} \cup {Name(n) : n \in AgentNames}, p \in {"", "product2"} :
        GetRulesForAgent(a, p)

SomeFormatRules == \E rules \in RuleTexts, f \in Formatters : FormatRules(rules, f)

SomeAppendRules ==
    \E p \in {"", "product2"}, f \in Formatters, b \in BasePrompts, a \in AgentNames :
        AppendRules(p, f, b, a)

NextInject ==
    \/ SomeGetRulesForAgent
    \/ SomeFormatRules
    \/ SomeAppendRules

SpecInject == InitInject /\ [][NextInject]_vars

-----------------------------------------------------------------------------
(* config.initialize is a coroutine function: calling it returns a coroutine  *)
(* object to the caller, and its body runs when that object is awaited.       *)

Configs == {[initialized |-> TRUE, compatibility_threshold |-> t] : t \in Thresholds}

InitConfig ==
    /\ config = NoConfig
    /\ init_call = NoInitialize
    /\ pydantic_bool_float = FALSE
    /\ NoCall
    /\ NoCalls
    /\ NoPure
    /\ EmptyCache

\* the call expression initialize(cfg, fetch_rules_on_init) is evaluated: a
\* coroutine object is handed to the caller, the body has not run
CallInitialize(cfg, fetch_rules_on_init) ==
    /\ init_call.pc \in {"none", "done", "dropped"}
    /\ init_call' = [pc |-> "created", config |-> cfg,
                     fetch_rules_on_init |-> fetch_rules_on_init]
    /\ UNCHANGED <<config, pydantic_bool_float, call_vars, calls, pure_vars, cache_vars>>

\* the caller awaits the coroutine object: the body runs up to the await of
\* fetch_rules, or to its end
AwaitInitialize ==
    /\ init_call.pc = "created"
    /\ init_call' = [init_call EXCEPT
                       !.pc = IF init_call.fetch_rules_on_init THEN "fetching" ELSE "done"]
    /\ config' = init_call.config
    /\ UNCHANGED <<pydantic_bool_float, call_vars, calls, pure_vars, cache_vars>>

\* the caller never awaits the coroutine object
DropInitialize ==
    /\ init_call.pc = "created"
    /\ init_call' = [init_call EXCEPT !.pc = "dropped"]
    /\ UNCHANGED <<config, pydantic_bool_float, call_vars, calls, pure_vars, cache_vars>>

\* await fetch_rules(config.product_name) ends; a failure is logged
InitializeFetchEnds(r) ==
    /\ init_call.pc = "fetching"
    /\ init_call' = [init_call EXCEPT !.pc = "done"]
    /\ IF FetchedRules(r).ok
       THEN /\ cache' = refresh_rules([cache |-> cache, last_refresh |-> last_refresh],
                                      ConfigProductName, FetchedRules(r).value, clock).cache
            /\ last_refresh' =
                  refresh_rules([cache |-> cache, last_refresh |-> last_refresh],
                                ConfigProductName, FetchedRules(r).value, clock).last_refresh
            /\ refreshed' = Noted(refreshed, ConfigProductName, FetchedRules(r).value)
       ELSE UNCHANGED <<cache, last_refresh, refreshed>>
    /\ UNCHANGED <<config, pydantic_bool_float, call_vars, calls, pure_vars>>
    /\ UNCHANGED <<clock, fetch, http>>

SomeCallInitialize ==
    \E cfg \in Configs, fetch_rules_on_init \in BOOLEAN : CallInitialize(cfg, fetch_rules_on_init)

SomeInitializeFetchEnds ==
    init_call.pc = "fetching" /\ \E r \in RmsResponses : InitializeFetchEnds(r)

NextConfig ==
    \/ SomeCallInitialize
    \/ AwaitInitialize
    \/ DropInitialize
    \/ SomeInitializeFetchEnds

SpecConfig == InitConfig /\ [][NextConfig]_vars

-----------------------------------------------------------------------------
(* Vocabulary of the properties *)

Done == pc = "done"

HasOutcome == pc = "done" /\ result.kind = "returned"

Outcome == result.value

Applied == result.value.validation_metadata.applied_agents

Threshold == config.compatibility_threshold

IsObjectResponse ==
    /\ response.kind = "text"
    /\ response.content.form = "object"

HasAgentsKey ==
    /\ IsObjectResponse
    /\ "applied_agents" \in DOMAIN response.content.value

ResponseAgents == response.content.value.applied_agents

HasAllRequired(e) == \A i \in 1..Len(required_fields) : required_fields[i] \in DOMAIN e

IsNumberInRange(score) == score.t = "num" /\ score.v \in 0..One

HasGoodScores(e) ==
    /\ IsNumberInRange(e.role_consistency_score)
    /\ IsNumberInRange(e.authority_expansion_score)
    /\ IsNumberInRange(e.instruction_conflicts_score)

IsValidEntry(e) == HasAllRequired(e) /\ HasGoodScores(e)

\* the call got a valid model response under an initialised configuration
ValidResponse ==
    /\ template = "default"
    /\ config.initialized
    /\ HasAgentsKey
    /\ \A i \in 1..Len(ResponseAgents) : IsValidEntry(ResponseAgents[i])

SubScoreSum(e) ==
    e.role_consistency_score.v + e.authority_expansion_score.v
    + e.instruction_conflicts_score.v

\* mean of the three sub-scores >= t, without dividing
MeanAtLeast(e, t) == SubScoreSum(e) >= 3 * t

\* info is the AgentRuleInfo of response entry e
BuiltFrom(info, e) ==
    /\ info.agent_name = e.agent_name
    /\ info.role_consistency_score = e.role_consistency_score.v
    /\ info.authority_expansion_score = e.authority_expansion_score.v
    /\ info.instruction_conflicts_score = e.instruction_conflicts_score.v
    /\ info.rule_to_apply = e.rule_to_apply
    /\ 3 * info.overall_compatibility_score = SubScoreSum(e)

KthOf(I, k) == CHOOSE i \in I : Cardinality({j \in I : j <= i}) = k

\* list is the sub-sequence of entries whose mean is >= t, in entry order
IsThresholdFilter(list, entries, t) ==
    LET I == {i \in 1..Len(entries) : MeanAtLeast(entries[i], t)} IN
    /\ Len(list) = Cardinality(I)
    /\ \A k \in 1..Len(list) : BuiltFrom(list[k], entries[KthOf(I, k)])

\* something the specification lists as a failure happened during the call
FailureInCall ==
    \/ template # "default"
    \/ response.kind = "raise"
    \/ response.kind = "text" /\ ~ValidResponse
    \/ scoring_callback = "raise"

IsSafeDefault(v) ==
    /\ v.can_be_applied = FALSE
    /\ v.max_compatibility_score = 0
    /\ v.validation_metadata.applied_agents = <<>>
    /\ Head(v.explanation) = "Validation failed: "

-----------------------------------------------------------------------------
(* C1: validate_rule never raises to its caller; on every failure (prompt  *)
(* rendering, model invocation, parsing, per-entry validation, scoring,    *)
(* scoring callback) it returns the safe default: can_be_applied = False,  *)
(* max_compatibility_score = 0.0, no applied agents, an explanation naming *)
(* the failure.                                                            *)
C1_NeverRaises ==
    Done => /\ result.kind = "returned"
            /\ FailureInCall => IsSafeDefault(Outcome)

-----------------------------------------------------------------------------
(* C2: without a scoring callback and for a valid model response, the      *)
(* applied_agents of the outcome is exactly the sub-sequence of response   *)
(* entries whose mean sub-score is >= the threshold, in response order; an *)
(* entry whose mean equals the threshold is kept, one below is dropped and *)
(* causes no error.                                                        *)
C2_ThresholdFilter ==
    (Done /\ scoring_callback = "none" /\ ValidResponse)
        => /\ result.kind = "returned"
           /\ IsThresholdFilter(Applied, ResponseAgents, Threshold)

\* two entries, the first below the threshold and dropped, the second with a
\* mean equal to a non-zero threshold and kept
C2_Witness ==
    /\ HasOutcome /\ scoring_callback = "none" /\ ValidResponse
    /\ Threshold > 0
    /\ Len(ResponseAgents) = 2
    /\ SubScoreSum(ResponseAgents[1]) < 3 * Threshold
    /\ SubScoreSum(ResponseAgents[2]) = 3 * Threshold
    /\ Len(Applied) = 1
    /\ Applied[1].agent_name = ResponseAgents[2].agent_name

-----------------------------------------------------------------------------
(* C3: in every outcome of validate_rule, also after a scoring callback    *)
(* and in the safe default the except handler builds, can_be_applied is    *)
(* true exactly when applied_agents is non-empty.                          *)
C3_CanBeAppliedIffNonEmpty ==
    Done =>
        /\ result.kind = "returned" => (Outcome.can_be_applied <=> Applied # <<>>)
        /\ result.kind = "raised" =>
              (result.args.can_be_applied
                  <=> result.args.validation_metadata.applied_agents # <<>>)

\* a callback's own entry is the only applied agent: scoring kept nothing
C3_Witness ==
    /\ HasOutcome
    /\ scoring_callback = "invent"
    /\ scored = <<>>
    /\ Len(ResponseAgents) > 0
    /\ Outcome.can_be_applied
    /\ Len(Applied) = 1

-----------------------------------------------------------------------------
IsMaxOf(m, list) ==
    IF list = <<>> THEN m = 0
    ELSE /\ \E i \in 1..Len(list) : list[i].overall_compatibility_score = m
         /\ \A i \in 1..Len(list) : list[i].overall_compatibility_score <= m

(* C4: in every outcome of validate_rule, max_compatibility_score is the   *)
(* largest overall_compatibility_score among applied_agents, and 0.0 when  *)
(* applied_agents is empty.                                                *)
C4_MaxCompatibilityScore ==
    Done =>
        /\ result.kind = "returned"
              => IsMaxOf(Outcome.max_compatibility_score, Applied)
        /\ result.kind = "raised"
              => IsMaxOf(result.args.max_compatibility_score,
                         result.args.validation_metadata.applied_agents)

\* two applied agents, the larger score in second place
C4_Witness ==
    /\ HasOutcome
    /\ Len(Applied) = 2
    /\ Applied[1].overall_compatibility_score < Applied[2].overall_compatibility_score
    /\ Outcome.max_compatibility_score = Applied[2].overall_compatibility_score

-----------------------------------------------------------------------------
LastEntry == ResponseAgents[Len(ResponseAgents)]

(* C5: the overall_compatibility_score of every entry validate_rule builds *)
(* is the unweighted mean of the entry's three sub-scores; an              *)
(* overall_compatibility_score in the model response is used neither for   *)
(* the stored value nor for the threshold decision.                        *)
C5_OverallIsMean ==
    (Done /\ HasAgentsKey) =>
        /\ \A i \in 1..Len(scored) :
              3 * scored[i].overall_compatibility_score
                  = scored[i].role_consistency_score
                    + scored[i].authority_expansion_score
                    + scored[i].instruction_conflicts_score
        /\ ValidResponse =>
              /\ result.kind = "returned"
              /\ IsThresholdFilter(Applied, ResponseAgents, Threshold)

\* the response supplies an overall score of 1.0 for an entry whose mean is
\* below the threshold: the entry is dropped
C5_Witness ==
    /\ HasOutcome /\ ValidResponse
    /\ "overall_compatibility_score" \in DOMAIN LastEntry
    /\ LastEntry.overall_compatibility_score.v >= Threshold
    /\ SubScoreSum(LastEntry) < 3 * Threshold
    /\ SubScoreSum(LastEntry) > 0
    /\ \A i \in 1..Len(Applied) : Applied[i].agent_name # LastEntry.agent_name

-----------------------------------------------------------------------------
(* C6: with a scoring callback, once parsing and scoring have succeeded    *)
(* validate_rule calls it exactly once with the whole list of entries that *)
(* met the threshold (an empty list too), takes its return value as        *)
(* applied_agents and computes can_be_applied and max_compatibility_score  *)
(* from that return value; a callback returning an empty list gives        *)
(* can_be_applied = False and max_compatibility_score = 0.0.               *)
C6_CallbackReplacesList ==
    (Done /\ scoring_callback # "none" /\ ValidResponse) =>
        /\ cb_calls = 1
        /\ cb_arg = scored
        /\ IsThresholdFilter(cb_arg, ResponseAgents, Threshold)
        /\ scoring_callback # "raise" =>
              /\ result.kind = "returned"
              /\ Applied = CallbackReturn(scoring_callback, cb_arg).value
              /\ Outcome.can_be_applied <=> Applied # <<>>
              /\ IsMaxOf(Outcome.max_compatibility_score, Applied)
        /\ scoring_callback = "empty" =>
              /\ Outcome.can_be_applied = FALSE
              /\ Outcome.max_compatibility_score = 0

\* entries met the threshold and the callback returned an empty list
C6_Witness ==
    /\ HasOutcome /\ ValidResponse
    /\ scoring_callback = "empty"
    /\ cb_calls = 1
    /\ Len(cb_arg) = 2
    /\ Applied = <<>>
    /\ Outcome.can_be_applied = FALSE

-----------------------------------------------------------------------------
ProducedByScoring(info) ==
    /\ \E i \in 1..Len(scored) : scored[i] = info
    /\ \E i \in 1..Len(ResponseAgents) : BuiltFrom(info, ResponseAgents[i])

(* C7: in every outcome of validate_rule, with or without a scoring        *)
(* callback, every applied agent has an overall score >= the threshold and *)
(* was produced by the scoring step.                                       *)
C7_OnlyScoredAboveThreshold ==
    HasOutcome =>
        \A i \in 1..Len(Applied) :
            /\ Applied[i].overall_compatibility_score >= Threshold
            /\ ProducedByScoring(Applied[i])

\* the callback returned nothing but entries it was given
CallbackKeepsToInput ==
    \A i \in 1..Len(Applied) : \E j \in 1..Len(cb_arg) : Applied[i] = cb_arg[j]

(* C7 as amended: the same holds of every outcome produced without a       *)
(* callback or with a callback that returns only entries it was given      *)
(* (a sub-list or a reordering); validate_rule does not check the return   *)
(* value of the callback.                                                  *)
C7_Amended ==
    (HasOutcome /\ (scoring_callback = "none" \/ CallbackKeepsToInput)) =>
        \A i \in 1..Len(Applied) :
            /\ Applied[i].overall_compatibility_score >= Threshold
            /\ ProducedByScoring(Applied[i])

\* a callback reordered two entries that met a non-zero threshold
C7_Witness ==
    /\ HasOutcome
    /\ scoring_callback = "reverse"
    /\ Threshold > 0
    /\ Len(Applied) = 2
    /\ Applied[1] # Applied[2]
    /\ Applied[1] = scored[2]

-----------------------------------------------------------------------------
(* C8: a response whose top-level mapping has no applied_agents key is a   *)
(* validation failure: _parse_validation_response raises, validate_rule    *)
(* returns the safe default, and the explanation is the failure message,   *)
(* not system_summary.                                                     *)
C8_MissingAppliedAgents ==
    (Done /\ template = "default" /\ IsObjectResponse /\ ~HasAgentsKey) =>
        /\ result.kind = "returned"
        /\ IsSafeDefault(Outcome)
        /\ Outcome.explanation
              = <<"Validation failed: ", "Response missing 'applied_agents' field">>

-----------------------------------------------------------------------------
ClaimedFieldOrder ==
    <<"agent_name", "role_consistency_score", "authority_expansion_score",
      "instruction_conflicts_score", "rule_to_apply">>

IsFirstAbsent(e, k) ==
    /\ ClaimedFieldOrder[k] \notin DOMAIN e
    /\ \A j \in 1..(k - 1) : ClaimedFieldOrder[j] \in DOMAIN e

\* the exception that sent validate_rule into its except handler
FailedWith(msg) ==
    /\ result.kind = "raised"
    /\ result.cause.exc = "ValueError"
    /\ result.cause.msg = msg

EarlierEntriesValid(i) == \A j \in 1..(i - 1) : IsValidEntry(ResponseAgents[j])

(* C9: an entry that lacks one of agent_name, role_consistency_score,      *)
(* authority_expansion_score, instruction_conflicts_score, rule_to_apply   *)
(* makes validation fail with an error naming the first absent field in    *)
(* that order, also when the entry has an out-of-range score as well; the  *)
(* optional fields analysis and concerns never cause that error and        *)
(* default to empty text and an empty list.                                *)
C9_FirstMissingField ==
    (Done /\ HasAgentsKey) =>
        /\ \A i \in 1..Len(ResponseAgents) : \A k \in 1..Len(ClaimedFieldOrder) :
              (EarlierEntriesValid(i) /\ IsFirstAbsent(ResponseAgents[i], k))
                  => FailedWith(<<"Agent entry missing required field: ",
                                  ClaimedFieldOrder[k]>>)
        /\ (\A i \in 1..Len(ResponseAgents) : HasAllRequired(ResponseAgents[i]))
              => ~(/\ result.kind = "raised"
                   /\ Head(result.cause.msg) = "Agent entry missing required field: ")
        /\ (ValidResponse /\ MeanAtLeast(LastEntry, Threshold)) =>
              /\ result.kind = "returned"
              /\ Applied[Len(Applied)].analysis
                    = (IF "analysis" \in DOMAIN LastEntry THEN LastEntry.analysis ELSE "")
              /\ Applied[Len(Applied)].concerns
                    = (IF "concerns" \in DOMAIN LastEntry THEN LastEntry.concerns ELSE <<>>)

\* an entry without role_consistency_score and rule_to_apply whose
\* authority_expansion_score is 1.5: the error names role_consistency_score
C9_Witness ==
    /\ Done /\ HasAgentsKey
    /\ DOMAIN LastEntry \cap {"agent_name", "role_consistency_score", "rule_to_apply"}
          = {"agent_name"}
    /\ "authority_expansion_score" \in DOMAIN LastEntry
    /\ LastEntry.authority_expansion_score.v > One
    /\ FailedWith(<<"Agent entry missing required field: ", "role_consistency_score">>)

\* an entry without analysis and concerns is kept, with the defaults
C9_DefaultsWitness ==
    /\ HasOutcome /\ ValidResponse
    /\ DOMAIN LastEntry \cap {"analysis", "concerns"} = {}
    /\ Applied # <<>>
    /\ Applied[Len(Applied)].analysis = ""
    /\ Applied[Len(Applied)].concerns = <<>>

-----------------------------------------------------------------------------
ClaimedScoreOrder ==
    <<"role_consistency_score", "authority_expansion_score",
      "instruction_conflicts_score">>

IsFirstBadScore(e, k) ==
    /\ ~IsNumberInRange(e[ClaimedScoreOrder[k]])
    /\ \A j \in 1..(k - 1) : IsNumberInRange(e[ClaimedScoreOrder[j]])

(* C10: each of the three sub-scores of every entry must be a number in    *)
(* [0.0, 1.0], bounds included: a value that is not a number or is out of  *)
(* range makes validation fail with an error naming that score field, so   *)
(* no AgentRuleInfo of an outcome carries a sub-score outside [0, 1].      *)
C10_ScoresAreNumbersInRange ==
    (Done /\ HasAgentsKey) =>
        /\ \A i \in 1..Len(ResponseAgents) : \A k \in 1..Len(ClaimedScoreOrder) :
              (/\ EarlierEntriesValid(i)
               /\ HasAllRequired(ResponseAgents[i])
               /\ IsFirstBadScore(ResponseAgents[i], k))
                  => FailedWith(<<ClaimedScoreOrder[k],
                                  " must be a number between 0.0 and 1.0">>)
        /\ \A i \in 1..Len(scored) :
              /\ scored[i].role_consistency_score \in 0..One
              /\ scored[i].authority_expansion_score \in 0..One
              /\ scored[i].instruction_conflicts_score \in 0..One
        /\ (\A i \in 1..Len(ResponseAgents) :
                /\ HasAllRequired(ResponseAgents[i])
                /\ \A k \in 1..Len(ClaimedScoreOrder) :
                      /\ ResponseAgents[i][ClaimedScoreOrder[k]].t = "num"
                      /\ ResponseAgents[i][ClaimedScoreOrder[k]].v \in {0, One})
              => result.kind = "returned"

-----------------------------------------------------------------------------
(* Vocabulary of the properties of safe_json_parse *)

Parsed == parse_result # NoResult

Trimmed == Strip(text)

AnyCaseJsonTags == {"json", "JSON", "Json"}

\* the newline that ends the opening line of a fenced block
OpenerNewline(i, tags) == IF tags = {} THEN i + 1 ELSE i + 2

IsCloser(s, k) == k < Len(s) /\ s[k] = "nl" /\ s[k + 1] = "fence"

\* a fenced block starts at i: ``` and, unless tags is empty, one of the
\* tags, then a newline, and further on a line that starts with ```
IsBlockStart(s, i, tags) ==
    /\ s[i] = "fence"
    /\ OpenerNewline(i, tags) <= Len(s)
    /\ tags # {} => s[i + 1] \in tags
    /\ s[OpenerNewline(i, tags)] = "nl"
    /\ \E k \in (OpenerNewline(i, tags) + 1)..Len(s) : IsCloser(s, k)

HasBlock(s, tags) == \E i \in 1..Len(s) : IsBlockStart(s, i, tags)

\* the lines between the opening line of the first such block and the first
\* closing line after it
FirstBlockContent(s, tags) ==
    LET n == OpenerNewline(Min({i \in 1..Len(s) : IsBlockStart(s, i, tags)}), tags)
        k == Min({c \in (n + 1)..Len(s) : IsCloser(s, c)})
    IN  Strip(SubSeq(s, n + 1, k - 1))

\* how safe_json_parse ends when json_str is the payload it parses
OutcomeOfPayload(json_str) == Ended(safe_json_parse(json_loads(json_str)))

\* the payload by precedence: json-tagged block, untagged block, whole text
PayloadByPrecedence(s, tags) ==
    IF HasBlock(s, tags) THEN FirstBlockContent(s, tags)
    ELSE IF HasBlock(s, {}) THEN FirstBlockContent(s, {})
    ELSE s

EmptyInputError == "Content is empty or contains only whitespace"

MalformedPayloadError == "Failed to parse JSON"

UnexpectedShapeError == "Expected JSON object (dict), got "

RaisedError(head) ==
    /\ parse_result.kind = "raised"
    /\ parse_result.exc = "ValueError"
    /\ Head(parse_result.msg) = head

-----------------------------------------------------------------------------
(* C11: safe_json_parse recognises a fenced block whose language tag is    *)
(* json in any letter case (json, JSON, Json) and, when the text has such  *)
(* a block, parses the content of the block as the payload.                *)
C11_JsonTagAnyCase ==
    (Parsed /\ HasBlock(Trimmed, AnyCaseJsonTags))
        => parse_result = OutcomeOfPayload(FirstBlockContent(Trimmed, AnyCaseJsonTags))

-----------------------------------------------------------------------------
(* C12: safe_json_parse selects its payload by strict precedence: the      *)
(* content of a json-tagged fenced block (tag json or JSON; other letter   *)
(* cases are the matter of C11) if the trimmed text has one anywhere,      *)
(* otherwise the content of an untagged fenced block if it has one,        *)
(* otherwise the whole trimmed text; text around the chosen block is       *)
(* ignored, and a chosen block whose content does not parse is an error,   *)
(* with no fallback to another candidate.                                  *)
C12_PayloadPrecedence ==
    (Parsed /\ Trimmed # <<>>)
        => parse_result = OutcomeOfPayload(PayloadByPrecedence(Trimmed, {"json", "JSON"}))

\* prose, an untagged block around one object, then a json block around
\* another: the object of the json block is returned
C12_Witness ==
    /\ Parsed
    /\ text = <<"junk">> \o Block(<<>>, <<"obj1">>) \o Block(<<"json">>, <<"obj2">>)
    /\ parse_result = Returned(ObjectOf("obj2"))

\* a json block whose content is not JSON, before an untagged block around
\* an object: the call fails, the second block is not tried
C12_NoFallbackWitness ==
    /\ Parsed
    /\ text = Block(<<"JSON">>, <<"junk">>) \o Block(<<>>, <<"obj1">>)
    /\ RaisedError(MalformedPayloadError)

-----------------------------------------------------------------------------
(* C13: safe_json_parse returns only a key-value mapping: empty or         *)
(* whitespace-only input fails with the empty-input error, a selected      *)
(* payload that is not valid JSON with the malformed-payload error, a      *)
(* payload that parses to a list or a scalar with the unexpected-shape     *)
(* error; the three errors are told apart, and a value that is not a       *)
(* mapping is never returned.                                              *)
C13_OnlyMappingsReturned ==
    Parsed =>
        /\ parse_result.kind \in {"returned", "raised"}
        /\ parse_result.kind = "returned" <=> ReadContent(text).form = "object"
        /\ parse_result.kind = "returned"
              => /\ DOMAIN parse_result.value \subseteq {"applied_agents", "system_summary"}
                 /\ parse_result.value = ReadContent(text).value
        /\ RaisedError(EmptyInputError) <=> (\A i \in 1..Len(text) : text[i] = "nl")
        /\ RaisedError(MalformedPayloadError)
              <=> (Trimmed # <<>> /\ json_loads(SelectPayload(Trimmed)).form = "malformed")
        /\ RaisedError(UnexpectedShapeError)
              <=> (Trimmed # <<>>
                   /\ json_loads(SelectPayload(Trimmed)).form \in {"array", "scalar"})

\* a JSON array inside a json block, with prose before the block
C13_Witness ==
    /\ Parsed
    /\ text = <<"junk">> \o Block(<<"json">>, <<"arr">>)
    /\ RaisedError(UnexpectedShapeError)
    /\ parse_result.msg[2] = "list"

-----------------------------------------------------------------------------
\* the template of the call has no placeholder render cannot fill
PromptRenders == \A i \in 1..Len(Placeholders(template)) : Placeholders(template)[i] \in FormatArgs

(* C14: a validate_rule call invokes the model client at most once,        *)
(* exactly once when the prompt was rendered, and not again after a        *)
(* failure; the invocation is the only point where the call is suspended:  *)
(* while it is suspended nothing has been parsed, scored, passed to the    *)
(* callback or assembled, and everything after the response happens in     *)
(* the one step that ends the call.                                        *)
C14_OneModelInvocation ==
    /\ llm_calls \in {0, 1}
    /\ pc \in {"idle", "awaiting", "done"}
    /\ pc = "idle" => llm_calls = 0
    /\ pc = "awaiting" =>
          /\ llm_calls = 1
          /\ PromptRenders
          /\ response = NoResponse /\ result = NoResult
          /\ scored = <<>> /\ cb_calls = 0
    /\ Done =>
          /\ llm_calls = (IF PromptRenders THEN 1 ELSE 0)
          /\ PromptRenders <=> response # NoResponse
          /\ result # NoResult

\* the model client raised: the call ended after that single invocation
C14_Witness ==
    /\ Done
    /\ response.kind = "raise"
    /\ llm_calls = 1
    /\ result # NoResult

\* the prompt could not be rendered: the model client was never invoked
C14_NoInvocationWitness ==
    /\ Done
    /\ ~PromptRenders
    /\ llm_calls = 0

-----------------------------------------------------------------------------
\* the outcome of c's call had it run alone: same model response, and the
\* configuration that was in force when the call started
OutcomeAlone(c) ==
    IF calls[c].response.kind = "raise"
    THEN ExceptHandler(Err("Exception", <<"LLM API error">>))
    ELSE AfterInvoke(calls[c].response.content, calls[c].at_start, "none",
                     pydantic_bool_float).result

(* C15: concurrent validate_rule calls do not interfere: under every       *)
(* interleaving at their suspension points, a re-initialisation of the     *)
(* global configuration while a call is suspended included, the outcome of *)
(* each call is the one it would produce running alone with the same model *)
(* response and the threshold configured when the call started; the        *)
(* threshold is read once per call, so all entries of a call are filtered  *)
(* against the same value.                                                 *)
C15_OutcomeAsIfAlone ==
    \A c \in Callers :
        (calls[c].pc = "done" /\ calls[c].at_start.initialized)
            => calls[c].result = OutcomeAlone(c)

-----------------------------------------------------------------------------
(* Vocabulary of the properties of PromptTemplate.render *)

RenderedPrompt == rendered.value

RulesGiven == render_args.existing_rules

\* how often the template asks for the existing-rules section
SectionPlaces ==
    Cardinality({i \in 1..Len(Placeholders(render_args.tmpl)) :
                    Placeholders(render_args.tmpl)[i] = "existing_rules_section"})

HeaderCount ==
    Cardinality({i \in 1..Len(RenderedPrompt) : RenderedPrompt[i].line = "header"})

IsEntryLine(l) == l.line \in {"id", "text"}

\* the id and the text of every rule, in list order
EntriesOf(list) ==
    Flatten([i \in 1..Len(list) |->
                <<[line |-> "id",
                   v |-> <<IF "id" \in DOMAIN list[i] THEN list[i].id ELSE "unknown">>],
                  [line |-> "text", v |-> <<list[i].rule_text>>]>>])

RECURSIVE Repeat(_, _)
Repeat(seq, n) == IF n = 0 THEN <<>> ELSE seq \o Repeat(seq, n - 1)

(* C17: PromptTemplate.render writes the existing-rules section, header    *)
(* included, in the place the template gives it if and only if             *)
(* existing_rules is a non-empty list: when existing_rules is None or      *)
(* empty the rendered prompt has no EXISTING ACTIVE RULES header at all,   *)
(* and when it is non-empty the section has exactly one entry per rule, in *)
(* input order, with the id and the text of that rule.                     *)
C17_ExistingRulesSection ==
    (rendered # NoResult /\ rendered.kind = "returned") =>
        /\ (~RulesGiven.some \/ RulesGiven.list = <<>>) => HeaderCount = 0
        /\ (RulesGiven.some /\ RulesGiven.list # <<>>) =>
              /\ HeaderCount = SectionPlaces
              /\ SelectSeq(RenderedPrompt, IsEntryLine)
                    = Repeat(EntriesOf(RulesGiven.list), SectionPlaces)
        /\ (render_args.tmpl = "default" /\ HeaderCount = 1) =>
              \E h \in 1..Len(RenderedPrompt) :
                  /\ RenderedPrompt[h].line = "header"
                  /\ \A i \in 1..Len(RenderedPrompt) :
                        RenderedPrompt[i].line \in {"id", "applied_to", "text"} => i > h

\* the default template and two rules with different ids: one header, the
\* entry of the first rule before the entry of the second
C17_Witness ==
    /\ rendered # NoResult /\ rendered.kind = "returned"
    /\ render_args.tmpl = "default"
    /\ RulesGiven.some /\ Len(RulesGiven.list) = 2
    /\ DOMAIN RulesGiven.list[1] = {"id", "rule_text", "validation_metadata"}
    /\ RulesGiven.list[1].id = "rule-2"
    /\ DOMAIN RulesGiven.list[2] = {"rule_text"}
    /\ HeaderCount = 1
    /\ SelectSeq(RenderedPrompt, IsEntryLine)[1].v = <<"rule-2">>
    /\ SelectSeq(RenderedPrompt, IsEntryLine)[3].v = <<"unknown">>

\* an empty list given to the default template: no header
C17_EmptyListWitness ==
    /\ rendered # NoResult /\ rendered.kind = "returned"
    /\ render_args.tmpl = "default"
    /\ RulesGiven.some /\ RulesGiven.list = <<>>
    /\ HeaderCount = 0

-----------------------------------------------------------------------------
(* The rule cache *)

\* a step of a validate_rule call or of a POST /internal/rules/validate
\* request
ValidationStep ==
    \/ pc' # pc
    \/ http' # http /\ "validate" \in {http.route, http'.route}

\* the cached rules and the last-refresh timestamps are left as they were
CacheUnchanged == cache' = cache /\ last_refresh' = last_refresh

\* C16: no step of a validate_rule call or of a POST /internal/rules/validate
\* request, successful or failed, changes the cached rules or the
\* last-refresh timestamp of any product.
C16_ValidationReadsOnly == [][ValidationStep => CacheUnchanged]_vars

\* a request has been answered after validate_rule was given the non-empty
\* rule list cached for its product
C16_Witness ==
    /\ http.route = "validate"
    /\ http.status # 0
    /\ pc = "done"
    /\ existing_rules.some
    /\ existing_rules.list # <<>>
    /\ Get(cache, http.product_name, <<>>) = existing_rules.list
    /\ http.product_name \in DOMAIN last_refresh

\* a request for a product that was never cached has been answered
C16_UncachedWitness ==
    /\ http.route = "validate"
    /\ http.status # 0
    /\ pc = "done"
    /\ http.product_name \notin DOMAIN cache

\* a fetch_from_rms call ends in this step
FetchEnds == fetch.pc # "done" /\ fetch'.pc = "done"

\* the call that ends did not obtain rules: the configuration was missing,
\* the request timed out or failed, the status was an error, or the body
\* could not be turned into rules
FetchFailed == fetch'.response.kind = "none" \/ ~FetchedRules(fetch'.response).ok

\* a failed fetch_from_rms call leaves the cached rules and timestamps as
\* they were
FailedFetchPreservesCache == [][(FetchEnds /\ FetchFailed) => CacheUnchanged]_vars

\* a fetch failed for a product whose rules were cached
FailedFetchWitness ==
    /\ fetch.pc = "done"
    /\ fetch.response.kind \in {"timeout", "transport_error", "error_status"}
    /\ Get(cache, fetch.product_name, <<>>) # <<>>

\* C18: fetch_from_rms never raises, and a call that fails (timeout, HTTP
\* error status, transport error, a body that cannot be turned into rules)
\* leaves the cached rules and the last-refresh timestamp of every product
\* as they were before the call.
C18_FetchNeverRaises ==
    [][FetchEnds => /\ fetch'.result.kind = "returned"
                    /\ FetchFailed => CacheUnchanged]_vars

\* the response of the call that ends is an object {"rules": [rule, ...]}
RulesObjectFetched ==
    /\ FetchEnds
    /\ fetch'.response.kind = "ok"
    /\ fetch'.response.body.form = "object"
    /\ fetch'.response.body.keys = {"rules"}

\* C19: when the RMS request succeeds with a body {"rules": [rule, ...]},
\* get_active_rules for the product afterwards returns those rules in
\* response order, and the last-refresh timestamp of the product is set.
C19_RulesObjectCached ==
    [][RulesObjectFetched =>
          /\ get_active_rules(cache', fetch'.product_name).rules = fetch'.response.body.rules
          /\ fetch'.product_name \in DOMAIN last_refresh']_vars

\* a body that is the list of the rules is cached
ListBodyWitness ==
    /\ fetch.pc = "done"
    /\ fetch.response.kind = "ok"
    /\ fetch.response.body.form = "list"
    /\ fetch.response.body.items = <<Rule1, Rule2>>
    /\ Get(cache, fetch.product_name, <<>>) = <<Rule1, Rule2>>
    /\ fetch.product_name \in DOMAIN last_refresh

\* the cached rules and the timestamp of product q, absent or present, are
\* left as they were
EntryUnchanged(q) ==
    /\ (q \in DOMAIN cache') = (q \in DOMAIN cache)
    /\ q \in DOMAIN cache => cache'[q] = cache[q]
    /\ (q \in DOMAIN last_refresh') = (q \in DOMAIN last_refresh)
    /\ q \in DOMAIN last_refresh => last_refresh'[q] = last_refresh[q]

\* the entry of product p is the given rule list, refreshed now
EntrySet(p, rules) ==
    /\ p \in DOMAIN cache'
    /\ cache'[p] = rules
    /\ p \in DOMAIN last_refresh'
    /\ last_refresh'[p] = clock

\* C20: refresh_rules(p, rules) sets the cached rules and the last-refresh
\* timestamp of product p and leaves the rules and the timestamp of every
\* other product unchanged, in every sequence of refreshes.
C20_PartitionedByProduct ==
    [][\A p \in Products, rules \in RuleLists :
          Refresh(p, rules) =>
              /\ EntrySet(p, rules)
              /\ \A q \in Products \ {p} : EntryUnchanged(q)]_vars

\* both products have been refreshed, at different times, with different
\* rule lists
C20_Witness ==
    /\ DOMAIN cache = Products
    /\ DOMAIN last_refresh = Products
    /\ cache["product1"] = <<Rule1, Rule2>>
    /\ cache["product2"] = <<Rule2, Rule1>>
    /\ last_refresh["product1"] = 1
    /\ last_refresh["product2"] = 2

\* no step, of a refresh or of a fetch, changes the entries of two products
OneProductPerStep ==
    [][\A p, q \in Products : p # q => EntryUnchanged(p) \/ EntryUnchanged(q)]_vars

\* the list given to the most recently completed refresh of p, or the empty
\* list when p was never refreshed
LatestRefresh(p) == Get(refreshed, p, <<>>)

\* C21: in every state reached by interleaved refresh_rules, fetch_from_rms
\* and get_active_rules calls, get_active_rules(p) returns the list given to
\* the most recently completed refresh of p, whole and in order, or the empty
\* list if p was never refreshed; get_last_refresh(p) is None exactly when p
\* was never refreshed.
C21_LatestRefreshReturned ==
    \A p \in Products :
        /\ get_active_rules(cache, p).rules = LatestRefresh(p)
        /\ (get_last_refresh(last_refresh, p) = NoTime) = (p \notin DOMAIN refreshed)

\* product1 was last refreshed at time 2, with two rules, and product2 never
C21_Witness ==
    /\ DOMAIN refreshed = {"product1"}
    /\ refreshed["product1"] = <<Rule1, Rule2>>
    /\ get_active_rules(cache, "product1").rules = <<Rule1, Rule2>>
    /\ last_refresh["product1"] = 2
    /\ get_active_rules(cache, "product2").rules = <<>>

-----------------------------------------------------------------------------
(* Prompt injection *)

\* the product whose rules the call of the injection helper reads
InjectProduct == IF inject.product_name # "" THEN inject.product_name ELSE ConfigProductName

\* the rules cached for that product, in cache order
InjectCached == Get(cache, InjectProduct, <<>>)

HasValidation(rule) == "latest_validation" \in DOMAIN rule

AppliedAgentsOf(rule) == rule.latest_validation.validation_metadata.applied_agents

\* the validation of the rule lists agent a
ListsAgent(rule, a) ==
    /\ HasValidation(rule)
    /\ \E i \in 1..Len(AppliedAgentsOf(rule)) : AppliedAgentsOf(rule)[i].agent_name = a

\* the first applied-agent entry named a
FirstEntryNamed(rule, a) ==
    AppliedAgentsOf(rule)[CHOOSE i \in 1..Len(AppliedAgentsOf(rule)) :
                             /\ AppliedAgentsOf(rule)[i].agent_name = a
                             /\ \A j \in 1..(i - 1) : AppliedAgentsOf(rule)[j].agent_name # a]

\* what the rule contributes for agent a: at most one text
Contribution(rule, a) ==
    IF ~HasValidation(rule) THEN <<rule.rule_text>>
    ELSE IF ListsAgent(rule, a) THEN <<FirstEntryNamed(rule, a).rule_to_apply>>
    ELSE <<>>

\* C22: get_rules_for_agent with an agent name a returns, in cache order and
\* with at most one text per cached rule, the rule_text of every rule without
\* a validation and the rule_to_apply of the first applied-agent entry named a
\* of every rule whose validation lists a; other rules contribute nothing.
C22_RulesForAgent ==
    (/\ inject.op = "get_rules_for_agent"
     /\ inject.agent_name.some
     /\ config.initialized)
    => /\ inject.result.kind = "returned"
       /\ inject.result.value =
             Flatten([i \in 1..Len(InjectCached) |->
                        Contribution(InjectCached[i], inject.agent_name.name)])

\* a rule without validation, then a rule whose validation names AgentA twice
C22_Witness ==
    /\ inject.op = "get_rules_for_agent"
    /\ inject.agent_name = Name("AgentA")
    /\ Len(InjectCached) = 2
    /\ ~HasValidation(InjectCached[1])
    /\ HasValidation(InjectCached[2])
    /\ AppliedAgentsOf(InjectCached[2])
          = <<[agent_name |-> "AgentA", rule_to_apply |-> "again for A"],
              [agent_name |-> "AgentA", rule_to_apply |-> "for A"]>>
    /\ inject.result = Returned(<<"text1", "again for A">>)

\* a rule applied to no agent and a rule applied to AgentB only give nothing
\* for AgentA
C22_NothingWitness ==
    /\ inject.op = "get_rules_for_agent"
    /\ inject.agent_name = Name("AgentA")
    /\ Len(InjectCached) = 2
    /\ HasValidation(InjectCached[1])
    /\ AppliedAgentsOf(InjectCached[1]) = <<>>
    /\ HasValidation(InjectCached[2])
    /\ ~ListsAgent(InjectCached[2], "AgentA")
    /\ inject.result = Returned(<<>>)

\* the str a call of the injection helpers returned
InjectText == inject.result.value.text

Contains(txt, chunk) == \E k \in 1..Len(txt) : txt[k] = chunk

\* the rules are the lines "i. <rule>", numbered from 1, in input order
NumberedLines(txt, rules) ==
    \E f \in [1..Len(rules) -> 1..Len(txt)] :
        /\ \A i \in 1..Len(rules) :
              /\ txt[f[i]] = Numbered(i, rules[i])
              /\ f[i] < Len(txt)
              /\ txt[f[i] + 1] = Nl
              /\ f[i] > 1 => txt[f[i] - 1] = Nl
        /\ \A i, j \in 1..Len(rules) : i < j => f[i] < f[j]

\* a call format_rules_for_prompt(rules) with rules and without formatter
DefaultFormatCall ==
    /\ inject.op = "format_rules_for_prompt"
    /\ inject.rules # <<>>
    /\ inject.formatter = "none"

\* a call format_rules_for_prompt([], formatter)
EmptyFormatCall == inject.op = "format_rules_for_prompt" /\ inject.rules = <<>>

\* the returned text has the given heading, the introducing line and the
\* numbered rules
DefaultFormat(heading) ==
    /\ inject.result.kind = "returned"
    /\ inject.result.value.str
    /\ Contains(InjectText, Str(heading))
    /\ Contains(InjectText, Str("The following rules must be followed:"))
    /\ NumberedLines(InjectText, inject.rules)

\* the empty string is returned and no formatter was called
EmptyFormat ==
    /\ inject.result = Returned([str |-> TRUE, text |-> <<>>])
    /\ inject.formatter_calls = 0

\* what format_rules_for_prompt does: the same with the heading
\* "## Additional Rules"
FormatAsCoded ==
    /\ DefaultFormatCall => DefaultFormat("## Additional Rules")
    /\ EmptyFormatCall => EmptyFormat

\* three rules were formatted without formatter
FormatAsCodedWitness == DefaultFormatCall /\ Len(inject.rules) = 3

\* C23: format_rules_for_prompt with a non-empty list and no formatter
\* returns a text with the heading "## Active Rules", the line "The following
\* rules must be followed:" and every rule as a line "i. <rule>" numbered from
\* 1 in input order; with an empty list it returns the empty string and does
\* not call a supplied formatter.
C23_DefaultFormat ==
    /\ DefaultFormatCall => DefaultFormat("## Active Rules")
    /\ EmptyFormatCall => EmptyFormat

\* a call append_rules_to_prompt(base_prompt, agent_name) has ended
AppendCall == inject.op = "append_rules_to_prompt"

\* what get_rules_for_agent gives for the agent and product of the call
Retrieved == get_rules_for_agent(config, cache, inject.agent_name, inject.product_name)

\* what format_rules_for_prompt gives for the retrieved rules
Formatted == format_rules_for_prompt(Retrieved.value, inject.formatter).out

\* the agent has no rules
NoRulesForAgent == Retrieved.ok /\ Retrieved.value = <<>>

\* retrieval fails, the formatter raises, or what it returns is no str
InjectionFails ==
    \/ ~Retrieved.ok
    \/ /\ Retrieved.value # <<>>
       /\ ~Formatted.ok \/ ~Formatted.value.str

BeginsWith(txt, prefix) ==
    /\ Len(prefix) <= Len(txt)
    /\ SubSeq(txt, 1, Len(prefix)) = prefix

\* C24: append_rules_to_prompt never raises and returns a str that begins
\* with base_prompt: base_prompt itself when the agent has no rules or when
\* retrieval or formatting fails (uninitialised configuration, failing
\* formatter), and otherwise base_prompt followed by the formatted rules.
C24_AppendNeverRaises ==
    AppendCall =>
        /\ inject.result.kind = "returned"
        /\ BeginsWith(inject.result.value, inject.base_prompt)
        /\ IF NoRulesForAgent \/ InjectionFails
           THEN inject.result.value = inject.base_prompt
           ELSE inject.result.value = inject.base_prompt \o Formatted.value.text

\* the default format of two rules was appended to a non-empty base prompt
C24_Witness ==
    /\ AppendCall
    /\ inject.formatter = "none"
    /\ inject.base_prompt # <<>>
    /\ Retrieved.ok
    /\ Len(Retrieved.value) = 2
    /\ Len(inject.result.value) > Len(inject.base_prompt)
    /\ Contains(inject.result.value, Numbered(2, Retrieved.value[2]))

\* the formatter raised for an agent with rules
C24_FormatterFailsWitness ==
    /\ AppendCall
    /\ inject.formatter = "raise"
    /\ Retrieved.ok
    /\ Retrieved.value # <<>>
    /\ inject.formatter_calls = 1
    /\ inject.result = Returned(inject.base_prompt)

\* the configuration was not initialised
C24_UninitialisedWitness ==
    /\ AppendCall
    /\ ~config.initialized
    /\ DOMAIN cache # {}
    /\ inject.result = Returned(inject.base_prompt)

-----------------------------------------------------------------------------
(* The internal endpoints *)

\* a request to one of the internal endpoints arrives in this step
RequestArrives == http.route = "none" /\ http'.route # "none"

\* its X-Internal-API-Key header is not the configured api_key
WrongKey == http'.key # ConfigApiKey

\* the handler did not run: no validate_rule call was started, the model was
\* not invoked and the cache was not modified
HandlerNotRun ==
    /\ pc' = pc
    /\ llm_calls' = llm_calls
    /\ result' = result
    /\ CacheUnchanged

\* the request is answered with 401 "Invalid API key"
Unauthorized == http'.status = 401 /\ http'.detail = "Invalid API key"

\* C25: a request to either internal endpoint whose X-Internal-API-Key header
\* differs from the configured api_key, the empty string included, is
\* answered with HTTP 401 "Invalid API key", and its handler does not run: no
\* model invocation happens and the rule cache is not modified.
C25_KeyRequired ==
    [][(RequestArrives /\ WrongKey) =>
          /\ HandlerNotRun
          /\ config.initialized => Unauthorized]_vars

\* a refresh request with an empty key was rejected while rules were cached
C25_Witness ==
    /\ http.route = "refresh"
    /\ http.key = ""
    /\ http.status = 401
    /\ DOMAIN cache = Products
    /\ cache["product2"] # <<>>

\* a validate request with a wrong key was rejected
C25_ValidateWitness ==
    /\ http.route = "validate"
    /\ http.key = "wrong-api-key"
    /\ http.status = 401
    /\ pc = "idle"

\* a request with the configured key was served by the handler
C25_AcceptedWitness ==
    /\ http.route = "validate"
    /\ http.key = ConfigApiKey
    /\ http.status = 200
    /\ llm_calls = 1

\* the product key the claim names for a submitted list
TargetProduct(rules) == IF rules = <<>> THEN ConfigProductName ELSE Head(rules).product_name

\* C30: an authenticated POST /internal/rules/refresh stores the whole
\* submitted list under one product key, the product_name of the first rule
\* or the configured product_name when the list is empty, replaces the
\* previous rules of that product, leaves every other product unchanged and
\* reports that product and the number of submitted rules.
C30_RefreshEndpoint ==
    [][\A rules \in RuleLists :
          (PostRefresh(ConfigApiKey, rules) /\ config.initialized) =>
              /\ EntrySet(TargetProduct(rules), rules)
              /\ \A q \in Products \ {TargetProduct(rules)} : EntryUnchanged(q)
              /\ http'.status = 200
              /\ http'.product_name = TargetProduct(rules)
              /\ http'.rule_count = Len(rules)]_vars

\* a list whose first rule belongs to product2 and whose second rule belongs
\* to product1 was stored under product2, product1 keeping its own rules
C30_Witness ==
    /\ http.route = "refresh"
    /\ http.status = 200
    /\ http.product_name = "product2"
    /\ http.rule_count = 2
    /\ DOMAIN cache = Products
    /\ cache["product2"] = <<Rule2, Rule1>>
    /\ cache["product2"][2].product_name = "product1"
    /\ cache["product1"] = <<Rule1, Rule2>>
    /\ last_refresh["product1"] < last_refresh["product2"]

\* an empty list cleared the configured product
C30_EmptyListWitness ==
    /\ http.route = "refresh"
    /\ http.status = 200
    /\ http.product_name = ConfigProductName
    /\ http.rule_count = 0
    /\ cache[ConfigProductName] = <<>>
    /\ last_refresh[ConfigProductName] = 2

-----------------------------------------------------------------------------
(* The two dicts of the cache *)

\* C28: in every state a coroutine can observe, the products that have a
\* cached rule list are the products that have a last-refresh timestamp,
\* also for get_last_refresh, which reads without taking the lock.
C28_SameProducts ==
    /\ DOMAIN cache = DOMAIN last_refresh
    /\ \A p \in Products :
          (get_last_refresh(last_refresh, p) = NoTime) = (p \notin DOMAIN cache)

\* product2 alone has been refreshed, while a fetch and a validation are
\* suspended
C28_Witness ==
    /\ DOMAIN cache = {"product2"}
    /\ get_last_refresh(last_refresh, "product2") = Time(2)
    /\ get_last_refresh(last_refresh, "product1") = NoTime
    /\ fetch.pc = "awaiting"
    /\ pc = "awaiting"

-----------------------------------------------------------------------------
(* The configuration singleton *)

\* the latest call initialize(config) has returned to its caller: with the
\* coroutine object, awaited to its end or not
InitializeReturned == init_call.pc \in {"created", "dropped", "done"}

\* the body of the latest initialize call has run up to its first await
InitializeBodyRan == init_call.pc \in {"fetching", "done"}

\* an awaited initialize makes get_config return its config
AwaitedInitializeConfigures ==
    /\ init_call.pc = "none" => ~get_config(config).ok
    /\ InitializeBodyRan => get_config(config) = Ok(init_call.config)

\* a second configuration was installed by an awaited initialize
AwaitedInitializeWitness ==
    /\ init_call.pc = "done"
    /\ init_call.config.compatibility_threshold = One
    /\ get_config(config) = Ok(init_call.config)
    /\ ConfigProductName \in DOMAIN cache

\* C26: get_config() raises RuntimeError while no configuration has been
\* initialised, and once a call initialize(config) has returned to its caller
\* get_config() returns that config, until a later initialize replaces it.
C26_InitializeThenGetConfig ==
    /\ init_call.pc = "none" =>
          /\ ~get_config(config).ok
          /\ get_config(config).exc = "RuntimeError"
    /\ InitializeReturned => get_config(config) = Ok(init_call.config)

-----------------------------------------------------------------------------
\* the entry lacks a required field, or one of its sub-scores is a string or
\* a number outside [0.0, 1.0]; a boolean sub-score is the matter of C10
FailsItsChecks(e) ==
    \/ ~HasAllRequired(e)
    \/ \E k \in 1..Len(ClaimedScoreOrder) :
          /\ e[ClaimedScoreOrder[k]].t # "bool"
          /\ ~IsNumberInRange(e[ClaimedScoreOrder[k]])

SomeEntryFails == \E i \in 1..Len(ResponseAgents) : FailsItsChecks(ResponseAgents[i])

\* the mean of the sub-scores an entry carries, absent ones counted as 0.0
MeanOfPresent(e) ==
    (Get(e, "role_consistency_score", Num(0)).v
     + Get(e, "authority_expansion_score", Num(0)).v
     + Get(e, "instruction_conflicts_score", Num(0)).v) \div 3

(* C27: every entry of applied_agents is checked for required fields and   *)
(* score ranges before any entry is scored: when any single entry fails    *)
(* its checks the call ends in the validation error, no entry has been     *)
(* scored and no outcome with applied agents is returned, also when other  *)
(* entries are valid and meet the threshold and when the failing entry is  *)
(* itself below the threshold.                                             *)
C27_AllOrNothing ==
    (Done /\ HasAgentsKey /\ SomeEntryFails) =>
        /\ scored = <<>>
        /\ ~(HasOutcome /\ Applied # <<>>)
        /\ result.kind = "raised" => result.cause.exc = "ValueError"

\* a valid entry that meets the threshold, followed by an entry without
\* rule_to_apply whose own mean is below the threshold: nothing is scored
C27_Witness ==
    /\ Done /\ HasAgentsKey
    /\ Len(ResponseAgents) = 2
    /\ IsValidEntry(ResponseAgents[1])
    /\ MeanAtLeast(ResponseAgents[1], Threshold)
    /\ "rule_to_apply" \notin DOMAIN ResponseAgents[2]
    /\ MeanOfPresent(ResponseAgents[2]) < Threshold
    /\ scored = <<>>
    /\ FailedWith(<<"Agent entry missing required field: ", "rule_to_apply">>)

\* a valid entry that meets the threshold, followed by an entry whose
\* sub-scores are above the threshold and one of them above 1.0
C27_AboveThresholdWitness ==
    /\ Done /\ HasAgentsKey
    /\ Len(ResponseAgents) = 2
    /\ IsValidEntry(ResponseAgents[1])
    /\ MeanAtLeast(ResponseAgents[1], Threshold)
    /\ HasAllRequired(ResponseAgents[2])
    /\ ResponseAgents[2].role_consistency_score = Num(One + 3)
    /\ MeanOfPresent(ResponseAgents[2]) >= Threshold
    /\ scored = <<>>
    /\ result.kind = "raised"

-----------------------------------------------------------------------------
\* the keys of the agent_prompts mapping passed to the call
AgentPromptKeys == Range(TheAgentPrompts)

AppliedNames == [i \in 1..Len(Applied) |-> Applied[i].agent_name]

NoNameTwice(names) ==
    \A i \in 1..Len(names) : \A j \in 1..Len(names) : names[i] = names[j] => i = j

(* C29: every agent_name in the applied_agents of an outcome returned by   *)
(* validate_rule is a key of the agent_prompts mapping passed to that      *)
(* call, and no agent name occurs more than once in applied_agents.        *)
C29_AgentsFromPrompts ==
    HasOutcome =>
        /\ \A i \in 1..Len(AppliedNames) : AppliedNames[i] \in AgentPromptKeys
        /\ NoNameTwice(AppliedNames)

\* without a scoring callback, the names of the outcome are those of the
\* response entries that were kept, in order, repeated when the response
\* repeats them
C29_NamesAsInResponse ==
    (HasOutcome /\ scoring_callback = "none") =>
        /\ Len(Applied) = Len(scored)
        /\ \A i \in 1..Len(Applied) : Applied[i].agent_name = scored[i].agent_name
        /\ \A i \in 1..Len(scored) :
              \E j \in 1..Len(ResponseAgents) :
                  scored[i].agent_name = ResponseAgents[j].agent_name

\* a response that names the same agent in two entries, both kept
C29_RepeatedNameWitness ==
    /\ HasOutcome /\ scoring_callback = "none"
    /\ Len(Applied) = 2
    /\ Applied[1].agent_name = Applied[2].agent_name

\* a callback that appends an agent the caller never described
C29_ForeignNameWitness ==
    /\ HasOutcome
    /\ \E i \in 1..Len(Applied) : Applied[i].agent_name \notin AgentPromptKeys

====
